---- MODULE Spec2Model ----
(***************************************************************************)
(* A model of the content-classification pipeline of magicer:              *)
(*   - SpecPath: RelativePath::new and PathSandbox::resolve_path, followed *)
(*     by the open of AnalyzePathUseCase::execute;                         *)
(*   - SpecStream: one AnalyzeContentUseCase::execute_stream request, its  *)
(*     spill file, its blocking engine job and its deadline;               *)
(*   - SpecEngine: LibmagicRepository::new and concurrent callers of       *)
(*     execute, execute_from_file and AnalyzePathUseCase::execute sharing  *)
(*     the guarded engine handle;                                          *)
(*   - SpecMmap: concurrent owners of an MmapHandler (new, as_slice,       *)
(*     Drop) and the mappings of the process;                              *)
(*   - SpecTemp: concurrent callers of TempFileHandler::create_temp_file,  *)
(*     their cleanup calls and drops, and the background cleanup task;     *)
(*   - SpecFilename, SpecOutcomes: the filename validation and the mapping *)
(*     of results to HTTP responses, over enumerated inputs;               *)
(*   - SpecHttp: concurrent requests through the router, its middleware    *)
(*     and the analyze_content / analyze_path handlers;                    *)
(*   - SpecIngest: one body fed chunk by chunk both to the ingestion loop  *)
(*     of the analyze_content handler and to execute_stream;               *)
(*   - SpecStreamLive, SpecEngineLive, SpecHttpLive: the same steps under  *)
(*     the fairness the runtime's scheduling gives.                        *)
(* Strings are sequences of one-character strings; a filesystem path in    *)
(* component form is a sequence of such strings.  A buffer or file holds   *)
(* the sequence of chunks written to it.  The deadline of an engine call   *)
(* is one step: the awaiting caller is polled when it elapses and sees the *)
(* job finished or not.  fs::remove_file on a file the request created     *)
(* succeeds while the file exists.                                         *)
(***************************************************************************)
EXTENDS Integers, Sequences, FiniteSets, TLC

\* ------------------------------------------------------------------------
\* Bounds and input alphabets
\* ------------------------------------------------------------------------

\* longest caller-supplied relative path string that is enumerated
MaxPathLen == 4

\* characters a caller-supplied path is built from
PathChars == {"/", ".", " ", "a"}

\* configured sandbox roots (sandbox.base_dir) that are enumerated
Roots == { <<"/", "r">>, <<"/", "r", "/">>, <<"r">>, <<>>, <<"/">>, <<".">> }

\* working directory of the process, in component form
Cwd == << <<"/">>, <<"w">> >>

\* the one directory entry under the root that may be a symbolic link
LinkName == <<"a">>

\* where that entry points: not a link, a directory outside every root but
\* "/", or a directory inside the root
LinkKinds == {"none", "outside", "inside"}

OutsideDir == << <<"/">>, <<"o">> >>

RECURSIVE SeqsUpTo(_, _)
SeqsUpTo(S, n) ==
    IF n = 0 THEN { <<>> }
    ELSE LET shorter == SeqsUpTo(S, n - 1)
         IN  shorter \cup { Append(s, c) : s \in { t \in shorter : Len(t) = n - 1 }, c \in S }

PathInputs == SeqsUpTo(PathChars, MaxPathLen)

\* ------------------------------------------------------------------------
\* String helpers (str::starts_with, str::contains, str::split)
\* ------------------------------------------------------------------------

IsPrefix(p, s) == Len(p) <= Len(s) /\ SubSeq(s, 1, Len(p)) = p

StrContains(s, pat) ==
    \E i \in 1..(Len(s) - Len(pat) + 1) : SubSeq(s, i, i + Len(pat) - 1) = pat

\* str::split(sep): the pieces between the separators, empty pieces kept;
\* the empty string splits into one empty piece
RECURSIVE StrSplit(_, _)
StrSplit(s, sep) ==
    IF \A i \in 1..Len(s) : s[i] # sep THEN << s >>
    ELSE LET k == CHOOSE i \in 1..Len(s) : s[i] = sep /\ \A j \in 1..(i - 1) : s[j] # sep
         IN  << SubSeq(s, 1, k - 1) >> \o StrSplit(SubSeq(s, k + 1, Len(s)), sep)

SeqAny(seq, x) == \E i \in 1..Len(seq) : seq[i] = x

\* ------------------------------------------------------------------------
\* RelativePath::new
\* ------------------------------------------------------------------------

Ok(v) == [ok |-> TRUE, value |-> v]
Err(e) == [ok |-> FALSE, err |-> e]

\* RelativePath::new with ".." looked for anywhere in the string instead of
\* as a whole segment
RelativePath_new_substring(path) ==
    IF IsPrefix(<<"/">>, path) THEN Err("AbsolutePath")
    ELSE IF IsPrefix(<<" ">>, path) THEN Err("InvalidPath")
    ELSE IF StrContains(path, <<"/", "/">>) THEN Err("InvalidPath")
    ELSE IF StrContains(path, <<".", ".">>) THEN Err("PathTraversal")
    ELSE IF SeqAny(StrSplit(path, "/"), <<".">>) THEN Err("InvalidPath")
    ELSE Ok(path)

\* RelativePath::new with the "." test placed before the ".." test
RelativePath_new_dot_first(path) ==
    IF IsPrefix(<<"/">>, path) THEN Err("AbsolutePath")
    ELSE IF IsPrefix(<<" ">>, path) THEN Err("InvalidPath")
    ELSE IF StrContains(path, <<"/", "/">>) THEN Err("InvalidPath")
    ELSE LET parts == StrSplit(path, "/")
         IN  IF SeqAny(parts, <<".">>) THEN Err("InvalidPath")
             ELSE IF SeqAny(parts, <<".", ".">>) THEN Err("PathTraversal")
             ELSE Ok(path)

RelativePath_new(path) ==
    IF IsPrefix(<<"/">>, path) THEN Err("AbsolutePath")
    ELSE IF IsPrefix(<<" ">>, path) THEN Err("InvalidPath")
    ELSE IF StrContains(path, <<"/", "/">>) THEN Err("InvalidPath")
    ELSE LET parts == StrSplit(path, "/")
         IN  IF SeqAny(parts, <<".", ".">>) THEN Err("PathTraversal")
             ELSE IF SeqAny(parts, <<".">>) THEN Err("InvalidPath")
             ELSE Ok(path)

\* ------------------------------------------------------------------------
\* std::path as used by PathSandbox::resolve_path
\* ------------------------------------------------------------------------

\* PathBuf::join: an absolute argument replaces the base, otherwise it is
\* appended, with a separator unless the base is empty or ends with one
PathBuf_join(base, p) ==
    IF IsPrefix(<<"/">>, p) THEN p
    ELSE IF Len(base) = 0 \/ base[Len(base)] = "/" THEN base \o p
    ELSE base \o <<"/">> \o p

\* Path::components: a leading "/" is the root component, empty pieces are
\* dropped, "." is dropped except as the first piece of a rootless path
RECURSIVE NormalPieces(_, _)
NormalPieces(pieces, first) ==
    IF Len(pieces) = 0 THEN <<>>
    ELSE LET h == Head(pieces)
             keep == h # <<>> /\ (h # <<".">> \/ first)
         IN  (IF keep THEN << h >> ELSE <<>>) \o NormalPieces(Tail(pieces), FALSE)

Components(p) ==
    IF IsPrefix(<<"/">>, p)
    THEN << <<"/">> >> \o NormalPieces(StrSplit(Tail(p), "/"), FALSE)
    ELSE NormalPieces(StrSplit(p, "/"), TRUE)

\* Path::starts_with: whole components only
Path_starts_with(p, base) == IsPrefix(Components(base), Components(p))

\* resolve_path comparing the strings, the root extended by a separator
resolve_path_string_prefix(root, path) ==
    LET full_path == PathBuf_join(root, path)
    IN  IF ~IsPrefix(root \o <<"/">>, full_path) THEN Err("PathTraversal")
        ELSE Ok(full_path)

\* PathSandbox::resolve_path
resolve_path(root, path) ==
    LET full_path == PathBuf_join(root, path)
    IN  IF ~Path_starts_with(full_path, root) THEN Err("PathTraversal")
        ELSE Ok(full_path)

\* ------------------------------------------------------------------------
\* The location File::open reaches: the kernel makes the path absolute and
\* follows symbolic links
\* ------------------------------------------------------------------------

AbsComps(comps) ==
    IF Len(comps) > 0 /\ comps[1] = <<"/">> THEN comps
    ELSE Cwd \o (IF Len(comps) > 0 /\ comps[1] = <<".">> THEN Tail(comps) ELSE comps)

LinkAt(r) == AbsComps(Components(r)) \o << LinkName >>

LinkTarget(r, kind) ==
    IF kind = "outside" THEN OutsideDir
    ELSE AbsComps(Components(r)) \o << <<"b">> >>

RealLocation(r, kind, p) ==
    LET abs == AbsComps(Components(p))
    IN  IF kind # "none" /\ IsPrefix(LinkAt(r), abs)
        THEN LinkTarget(r, kind) \o SubSeq(abs, Len(LinkAt(r)) + 1, Len(abs))
        ELSE abs

\* ------------------------------------------------------------------------
\* State of one execute_stream request and of the spill directory
\* ------------------------------------------------------------------------
VARIABLES
    large_file_threshold_mb,  \* config.analysis.large_file_threshold_mb
    min_free_space_mb,        \* config.analysis.min_free_space_mb
    mmap_fallback_enabled,    \* LibmagicRepository.mmap_fallback_enabled
    buffer,                   \* execute_stream: buffer (the chunks it holds)
    is_large,                 \* execute_stream: is_large
    temp_file,                \* execute_stream: temp_file, <<>> is None
    free_space,               \* execute_stream: free_space, -1 before the query
    spillDir,                 \* files of config.analysis.temp_dir: name -> content
    streamPc,                 \* "reading", "awaiting", "returned"
    streamResult,             \* "none", "Ok" or the ApplicationError variant
    consumed,                 \* lengths of the chunks taken from the stream
    createCalls,              \* calls of TempStorageService::create_temp_file
    createdAtChunk,           \* index of the chunk at which it was called, 0 if never
    spillPath,                \* path of the EphemeralFile this request obtained
    sJob,                     \* the spawn_blocking job of this request
    sEngineCalls,             \* native engine calls made for this request
    ioLog,                    \* what every write_all and sync_all on the spill file returned
    spaceLog,                 \* what every statvfs query on temp_dir answered, in order
    errorItem                 \* position of the error item the stream yielded, 0 if none

streamVars == << large_file_threshold_mb, min_free_space_mb, mmap_fallback_enabled,
                 buffer, is_large, temp_file, free_space, spillDir, streamPc,
                 streamResult, consumed, createCalls, createdAtChunk, spillPath,
                 sJob, sEngineCalls, ioLog, spaceLog, errorItem >>

\* ------------------------------------------------------------------------
\* State of the engine adapter and of the callers that share it
\* ------------------------------------------------------------------------
VARIABLES
    enginePc,        \* LibmagicRepository::new: "unopened", "loading", "ready", "failed"
    mutexHolder,     \* MagicCookie.inner: 0 when unlocked, else the holder
    callerPc,        \* per caller: "idle", "awaiting", "returned"
    callerKind,      \* per caller: the entry point it runs
    callerResult,    \* per caller: "none", "Ok" or the ApplicationError variant
    jobs,            \* per caller: its spawn_blocking job
    elapsedPending,  \* per caller: the deadline elapsed while its job was unfinished
    loadLog          \* what each magic_load call on the handle returned, in order

engVars == << enginePc, mutexHolder, callerPc, callerKind, callerResult, jobs,
              elapsedPending, loadLog >>

\* ------------------------------------------------------------------------
\* State of the memory mappings (MmapHandler) of concurrent owners
\* ------------------------------------------------------------------------
VARIABLES
    mFileLen,      \* per owner: metadata.len() of the file it maps
    mPc,           \* per owner: "idle", "start", "mapped", "live", "reading",
                   \* "failed", "dropped"
    mHandler,      \* per owner: the MmapHandler {addr, len}, <<>> if none
    mErr,          \* per owner: why MmapHandler::new failed, or "none"
    mSlice,        \* per owner: length of the last as_slice(), -1 if none
    mappings,      \* the kernel's mappings of this process: addr -> len
    mmapCalls,     \* per owner: calls of libc::mmap
    munmapCalls,   \* per owner: calls of libc::munmap
    SIGBUS_OCCURRED, \* the static AtomicBool
    sigbusAction,  \* disposition of SIGBUS in this process: "default" or "handle_sigbus"
    processAlive,  \* FALSE once a signal has terminated the process
    mFaults,       \* per owner: SIGBUS deliveries raised by reads of its mapping
    mResult        \* per owner: "none", or what the engine call over its slice returned

mmapVars == << mFileLen, mPc, mHandler, mErr, mSlice, mappings, mmapCalls, munmapCalls,
               SIGBUS_OCCURRED, sigbusAction, processAlive, mFaults, mResult >>

\* number of owners of a mapping
NMaps == 2

Mappers == 1..NMaps

\* longest file, in bytes, that is mapped
MaxFileLen == 2

\* most SIGBUS deliveries one read is followed through
MaxFaults == 2

\* ptr::null_mut()
NullAddr == 0

\* addresses the kernel may hand out
Addrs == 1..NMaps

NoMappings == [a \in {} |-> 0]

MmapIdle ==
    /\ mFileLen = [h \in Mappers |-> 0]
    /\ mPc = [h \in Mappers |-> "idle"]
    /\ mHandler = [h \in Mappers |-> <<>>]
    /\ mErr = [h \in Mappers |-> "none"]
    /\ mSlice = [h \in Mappers |-> -1]
    /\ mappings = NoMappings
    /\ mmapCalls = [h \in Mappers |-> 0]
    /\ munmapCalls = [h \in Mappers |-> 0]
    /\ SIGBUS_OCCURRED = FALSE
    /\ sigbusAction = "default"
    /\ processAlive = TRUE
    /\ mFaults = [h \in Mappers |-> 0]
    /\ mResult = [h \in Mappers |-> "none"]

\* ------------------------------------------------------------------------
\* State of the spill directory and of concurrent callers of
\* TempFileHandler::create_temp_file, each owning the handler it obtained.
\* A name from generate_unique_filename (creation time in nanoseconds, a
\* UUID and a random suffix) either collides with a file present in the
\* directory at that moment or has never been used before; the files other
\* parties left stand for whatever a candidate may collide with.
\* ------------------------------------------------------------------------
VARIABLES
    tDir,          \* files of base_dir: name -> [content, mode, by]
    tPc,           \* per caller: "idle", "start", "attempt", "opened", "held",
                   \* "removing", "failed", "dropped"
    tData,         \* per caller: the data argument
    tRetries,      \* per caller: create_temp_file: retries
    tOpenLog,      \* per caller: outcome of every open attempt so far
    tPath,         \* per caller: name of the file its call created, 0 if none
    tHandler,      \* per caller: the TempFileHandler it holds, <<>> if none
    tResult,       \* per caller: "none", "Ok" or the InfrastructureError variant
    tAtReturn,     \* per caller: the created file as it was when Ok was returned
    tCleanupLog,   \* per caller: result of every explicit cleanup call so far
    tRemovals,     \* per caller: successful fs::remove_file calls of its handler
    tNextName      \* the next name never used before

tempVars == << tDir, tPc, tData, tRetries, tOpenLog, tPath, tHandler, tResult,
               tAtReturn, tCleanupLog, tRemovals, tNextName >>

\* number of concurrent callers of create_temp_file
NCreators == 2

Creators == 1..NCreators

\* number of files other parties left in the directory
MaxForeign == 1

ForeignNames == 1..MaxForeign

\* longest data argument, in bytes
MaxDataLen == 1

DataInputs == { [i \in 1..n |-> 1] : n \in 0..MaxDataLen }

\* explicit cleanup calls one owner makes before dropping
MaxCleanups == 2

\* modes a file gets from OpenOptions (0o666 masked by the umask): 0o644, 0o600
CreationModes == {420, 384}

ForeignFile == [content |-> << 0 >>, mode |-> 420, by |-> 0]

NoFile == [content |-> <<>>, mode |-> 0, by |-> 0]

TempIdle ==
    /\ tDir = [n \in {} |-> NoFile]
    /\ tPc = [c \in Creators |-> "idle"]
    /\ tData = [c \in Creators |-> <<>>]
    /\ tRetries = [c \in Creators |-> 0]
    /\ tOpenLog = [c \in Creators |-> <<>>]
    /\ tPath = [c \in Creators |-> 0]
    /\ tHandler = [c \in Creators |-> <<>>]
    /\ tResult = [c \in Creators |-> "none"]
    /\ tAtReturn = [c \in Creators |-> NoFile]
    /\ tCleanupLog = [c \in Creators |-> <<>>]
    /\ tRemovals = [c \in Creators |-> 0]
    /\ tNextName = MaxForeign + 1
\* ------------------------------------------------------------------------
\* State of one path request
\* ------------------------------------------------------------------------
VARIABLES
    base_dir,      \* PathSandbox.base_dir
    linkKind,      \* what the entry LinkName under the root is
    rawPath,       \* the caller-supplied path string
    pathPc,        \* "start", "constructed", "rejected", "resolved",
                   \* "resolveFailed", "opened", "openFailed", "classified",
                   \* "mapFailed"
    relPath,       \* result of RelativePath::new
    resolvedPath,  \* result of resolve_path
    openedAt,      \* real location of the file that was opened
    pathOutcome,   \* ApplicationError kind of a failed request, or "none"
    pathOpenErr,   \* io::ErrorKind of the failed File::open, or "none"
    pathEngineCalls \* calls of MagicRepository::analyze_buffer for this request

pathVars == << base_dir, linkKind, rawPath, pathPc, relPath, resolvedPath,
               openedAt, pathOutcome, pathOpenErr, pathEngineCalls >>

\* kinds of failure File::open may report
OpenErrorKinds == {"NotFound", "PermissionDenied", "Other"}

\* the open failure mapped without looking at its kind
OpenErrorToApplicationError_ignores_kind(kind) == "InternalError"

\* AnalyzePathUseCase::execute: the map_err closure of File::open
OpenErrorToApplicationError(kind) ==
    IF kind = "NotFound" THEN "NotFound" ELSE "InternalError"

NoResult == [ok |-> FALSE, err |-> "unset"]

\* ------------------------------------------------------------------------
\* State of one WindowsCompatibleFilename::new call
\* ------------------------------------------------------------------------
VARIABLES
    filename,        \* the string handed to WindowsCompatibleFilename::new
    fnResult         \* NoResult until new has returned, then Ok(..) or Err(..)

nameVars == << filename, fnResult >>

\* ------------------------------------------------------------------------
\* State of the MagicResult values that exist
\* ------------------------------------------------------------------------
VARIABLES
    outcomes,        \* per slot: NoOutcome or a MagicResult
    uuidsDrawn       \* how many times Uuid::new_v4 has been called

outcomeVars == << outcomes, uuidsDrawn >>

\* ------------------------------------------------------------------------
\* State of the HTTP requests in flight
\* ------------------------------------------------------------------------
VARIABLES
    http,            \* per request: its input, position, response and what it used
    hGuard,          \* MagicCookie.inner: 0 when unlocked, else the request whose job holds it
    max_connections  \* config.server.max_connections

httpVars == << http, hGuard, max_connections >>

InitPath ==
    /\ base_dir \in Roots
    /\ linkKind \in LinkKinds
    /\ rawPath \in PathInputs
    /\ pathPc = "start"
    /\ relPath = NoResult
    /\ resolvedPath = NoResult
    /\ openedAt = <<>>
    /\ pathOutcome = "none"
    /\ pathOpenErr = "none"
    /\ pathEngineCalls = 0

\* analyze_path handler: RelativePath::new(&query.path)
ConstructPath ==
    /\ pathPc = "start"
    /\ relPath' = RelativePath_new(rawPath)
    /\ pathPc' = IF relPath'.ok THEN "constructed" ELSE "rejected"
    /\ pathOutcome' = IF relPath'.ok THEN "none" ELSE "BadRequest"
    /\ UNCHANGED << base_dir, linkKind, rawPath, resolvedPath, openedAt,
                    pathOpenErr, pathEngineCalls >>
    /\ UNCHANGED << streamVars, engVars, mmapVars, tempVars, nameVars, outcomeVars, httpVars >>

\* AnalyzePathUseCase::execute: self.sandbox.resolve_path(&path)?
ResolvePath ==
    /\ pathPc = "constructed"
    /\ resolvedPath' = resolve_path(base_dir, relPath.value)
    /\ pathPc' = IF resolvedPath'.ok THEN "resolved" ELSE "resolveFailed"
    /\ pathOutcome' = IF resolvedPath'.ok THEN "none" ELSE "BadRequest"
    /\ UNCHANGED << base_dir, linkKind, rawPath, relPath, openedAt,
                    pathOpenErr, pathEngineCalls >>
    /\ UNCHANGED << streamVars, engVars, mmapVars, tempVars, nameVars, outcomeVars, httpVars >>

\* AnalyzePathUseCase::execute: std::fs::File::open(&resolved_path)
OpenResolved ==
    /\ pathPc = "resolved"
    /\ \E res \in {"ok"} \cup OpenErrorKinds :
        /\ pathPc' = IF res = "ok" THEN "opened" ELSE "openFailed"
        /\ openedAt' = IF res = "ok"
                       THEN RealLocation(base_dir, linkKind, resolvedPath.value)
                       ELSE openedAt
        /\ pathOpenErr' = IF res = "ok" THEN "none" ELSE res
        /\ pathOutcome' = IF res = "ok" THEN "none"
                          ELSE OpenErrorToApplicationError(res)
    /\ UNCHANGED << base_dir, linkKind, rawPath, relPath, resolvedPath,
                    pathEngineCalls >>
    /\ UNCHANGED << streamVars, engVars, mmapVars, tempVars, nameVars, outcomeVars, httpVars >>

\* AnalyzePathUseCase::execute after the open: MmapHandler::new, then
\* analyze_buffer under the deadline, up to the return of execute
MapAndClassify ==
    /\ pathPc = "opened"
    /\ \E mapped \in BOOLEAN, answer \in {"Ok", "UnprocessableEntity", "Timeout"} :
        IF mapped
        THEN /\ pathEngineCalls' = pathEngineCalls + 1
             /\ pathPc' = "classified"
             /\ pathOutcome' = IF answer = "Ok" THEN "none" ELSE answer
        ELSE /\ pathPc' = "mapFailed"
             /\ pathOutcome' = "InternalError"
             /\ UNCHANGED pathEngineCalls
    /\ UNCHANGED << base_dir, linkKind, rawPath, relPath, resolvedPath, openedAt,
                    pathOpenErr >>
    /\ UNCHANGED << streamVars, engVars, mmapVars, tempVars, nameVars, outcomeVars, httpVars >>

\* ------------------------------------------------------------------------
\* Bounds and inputs of the stream request
\* ------------------------------------------------------------------------

\* largest configured large_file_threshold_mb that is enumerated
MaxThresholdMb == 2

\* largest free space and min_free_space_mb, in megabytes, that is enumerated
MaxFreeMb == 1

\* longest stream, in chunks, that is enumerated
MaxChunks == 3

MiB == 1024 * 1024

\* chunk lengths the stream may deliver
ChunkLens == {0, 1, MiB - 1, MiB, MiB + 1}

\* file names generate_unique_filename may produce
TempNames == {"t1", "t2"}

\* ------------------------------------------------------------------------
\* Buffers and files hold sequences of chunks [id, len]; their length in
\* bytes is the sum of the chunk lengths
\* ------------------------------------------------------------------------

RECURSIVE BufLen(_)
BufLen(buf) == IF Len(buf) = 0 THEN 0 ELSE Head(buf).len + BufLen(Tail(buf))

RECURSIVE SumSeq(_)
SumSeq(q) == IF Len(q) = 0 THEN 0 ELSE Head(q) + SumSeq(Tail(q))

\* Vec::extend_from_slice / write_all: an empty slice adds nothing
Extend(buf, chunk) == IF chunk.len = 0 THEN buf ELSE Append(buf, chunk)

FsRemove(dir, n) == [m \in DOMAIN dir \ {n} |-> dir[m]]
FsPut(dir, n, c) == [m \in DOMAIN dir \cup {n} |-> IF m = n THEN c ELSE dir[m]]

\* a write that replaces what the file holds instead of adding to it
FsWrite_overwrite(dir, n, chunk) ==
    IF n \in DOMAIN dir THEN FsPut(dir, n, Extend(<<>>, chunk)) ELSE dir

\* FsTempFile::write: a write through an open descriptor reaches the
\* directory entry only while that entry has not been unlinked
FsWrite(dir, n, chunk) ==
    IF n \in DOMAIN dir THEN FsPut(dir, n, Extend(dir[n], chunk)) ELSE dir

EmptyDir == [m \in {} |-> <<>>]

\* execute_stream: threshold
Threshold == large_file_threshold_mb * 1024 * 1024

\* the threshold test looking at the chunk alone
ExceedsThreshold_chunk_only(bufLen, chunkLen, threshold) == chunkLen > threshold

\* the threshold test with >= in place of >
ExceedsThreshold_inclusive(bufLen, chunkLen, threshold) == bufLen + chunkLen >= threshold

\* execute_stream: buffer.len() + chunk.len() > threshold
ExceedsThreshold(bufLen, chunkLen, threshold) == bufLen + chunkLen > threshold

\* the emptiness test left out
DataIsEmpty_never(data) == FALSE

\* execute: data.is_empty()
DataIsEmpty(data) == BufLen(data) = 0

\* the free-space test with the comparison reversed
InsufficientSpace_reversed(free, minFree) == free > minFree

\* execute_stream: free_space < self.config.analysis.min_free_space_mb
InsufficientSpace(free, minFree) == free < minFree

\* cleanup with the cleaned_up test inverted
TempFileHandler_cleanup_inverted(h, dir) ==
    IF h.cleaned_up
    THEN [handler |-> [h EXCEPT !.cleaned_up = TRUE],
          dir |-> IF h.path \in DOMAIN dir THEN FsRemove(dir, h.path) ELSE dir]
    ELSE [handler |-> h, dir |-> dir]

\* TempFileHandler::cleanup: the handler afterwards and the directory afterwards
TempFileHandler_cleanup(h, dir) ==
    IF ~h.cleaned_up
    THEN [handler |-> [h EXCEPT !.cleaned_up = TRUE],
          dir |-> IF h.path \in DOMAIN dir THEN FsRemove(dir, h.path) ELSE dir]
    ELSE [handler |-> h, dir |-> dir]

\* TempFileHandler::new_empty, once its file exists: the handler it returns
TempFileHandler_new_empty(name) == [path |-> name, cleaned_up |-> FALSE]

\* FsTempFile::new, once the file was opened for writing
FsTempFile_new(name) == [handler |-> TempFileHandler_new_empty(name), file |-> TRUE]

\* impl Drop for TempFileHandler
TempFileHandler_drop(h, dir) == TempFileHandler_cleanup(h, dir).dir

\* an Option<Box<dyn TemporaryFile>> goes out of scope: dropping an
\* FsTempFile drops its handler
DropTempFile(tf, dir) ==
    IF tf = <<>> THEN dir ELSE TempFileHandler_drop(tf[1].handler, dir)

\* From<MagicError> for ApplicationError
MagicErrorToApplicationError(e) ==
    IF e = "FileNotFound" THEN "NotFound" ELSE "UnprocessableEntity"

\* what the caller gets from a finished spawn_blocking job
JobToApplicationResult(jobResult) ==
    IF jobResult = "Ok" THEN "Ok" ELSE MagicErrorToApplicationError(jobResult)

\* the deadline mapped to the variant engine failures are mapped to
DeadlineResult_as_engine_failure(job) ==
    IF job.state = "done" THEN JobToApplicationResult(job.result) ELSE "UnprocessableEntity"

\* timeout(..).await.map_err(|_| ApplicationError::Timeout)?? at the moment
\* the deadline elapses: a finished job yields its result, an unfinished one
\* yields Timeout
DeadlineResult(job) ==
    IF job.state = "done" THEN JobToApplicationResult(job.result) ELSE "Timeout"

NoJob == [state |-> "none", kind |-> "none", path |-> "none", data |-> <<>>,
          result |-> "none", call |-> "none", input |-> <<>>, map |-> "none"]

\* the fallback taken whatever mmap_fallback_enabled says
AnalyzeFileDispatch_always_falls_back(mapped, fallback) ==
    IF mapped THEN "magic_buffer" ELSE "magic_file"

\* analyze_file: the match on MmapHandler::new(&file): the engine call that
\* follows, or the error returned without one
AnalyzeFileDispatch(mapped, fallback) ==
    IF mapped THEN "magic_buffer"
    ELSE IF fallback THEN "magic_file"
    ELSE "AnalysisFailed"

\* an await that has no timer: only the finished job wakes the caller
TimeoutPoll_without_timer(job, elapsed) ==
    IF job.state = "done" THEN "Ready" ELSE "Pending"

\* tokio::time::timeout(duration, future): the future is polled first, then
\* the timer; the caller stays suspended only while both are pending
TimeoutPoll(job, elapsed) ==
    IF job.state = "done" THEN "Ready"
    ELSE IF elapsed THEN "Elapsed"
    ELSE "Pending"

\* libc::statvfs on temp_dir: its return value and, when that is 0, the free
\* bytes (f_bavail * f_frsize) it reports
StatvfsAnswers ==
    { [rc |-> -1, free_bytes |-> 0] } \cup
    { [rc |-> 0, free_bytes |-> b] :
        b \in {0, MiB - 1} \cup { m * MiB : m \in 1..MaxFreeMb } }

\* a failed query taken as more space than any configured minimum
get_free_space_mb_failure_as_plenty(answer) ==
    IF answer.rc = 0 THEN answer.free_bytes \div (1024 * 1024) ELSE MaxFreeMb + 1

\* ServerConfig::get_free_space_mb
get_free_space_mb(answer) ==
    IF answer.rc = 0 THEN answer.free_bytes \div (1024 * 1024) ELSE 0

\* FsTempFile::write: write_all on the open file, an error once the file
\* was taken by sync
FsTempFile_write(tf, written) ==
    IF tf.file THEN (IF written THEN "Ok" ELSE "Err") ELSE "Err"

\* a sync whose failure is not reported
FsTempFile_sync_error_ignored(tf, synced) ==
    IF tf.file
    THEN [tf |-> [tf EXCEPT !.file = FALSE], result |-> "Ok"]
    ELSE [tf |-> tf, result |-> "Ok"]

\* FsTempFile::sync: takes the file out of the FsTempFile and calls sync_all
FsTempFile_sync(tf, synced) ==
    IF tf.file
    THEN [tf |-> [tf EXCEPT !.file = FALSE], result |-> IF synced THEN "Ok" ELSE "Err"]
    ELSE [tf |-> tf, result |-> "Ok"]

\* ioLog after write_all or sync_all was called on the file of tf and
\* returned; neither is called once the file was taken
LogIo(log, tf, op, ok) ==
    IF tf.file THEN Append(log, [op |-> op, result |-> IF ok THEN "Ok" ELSE "Err"])
    ELSE log

\* the item error mapped to another variant
StreamItemError_as_internal == "InternalError"

\* execute_stream: chunk_result.map_err(|e| ApplicationError::BadRequest(..))
StreamItemError == "BadRequest"

StreamLocalsIdle ==
    /\ large_file_threshold_mb = 0
    /\ min_free_space_mb = 0
    /\ buffer = <<>>
    /\ is_large = FALSE
    /\ temp_file = <<>>
    /\ free_space = -1
    /\ spillDir = EmptyDir
    /\ streamPc = "idle"
    /\ streamResult = "none"
    /\ consumed = <<>>
    /\ createCalls = 0
    /\ createdAtChunk = 0
    /\ spillPath = "none"
    /\ sJob = NoJob
    /\ sEngineCalls = 0
    /\ ioLog = <<>>
    /\ spaceLog = <<>>
    /\ errorItem = 0

StreamIdle == StreamLocalsIdle /\ mmap_fallback_enabled = FALSE

PathIdle ==
    /\ base_dir = <<>>
    /\ linkKind = "none"
    /\ rawPath = <<>>
    /\ pathPc = "idle"
    /\ relPath = NoResult
    /\ resolvedPath = NoResult
    /\ openedAt = <<>>
    /\ pathOutcome = "none"
    /\ pathOpenErr = "none"
    /\ pathEngineCalls = 0

InitStream ==
    /\ large_file_threshold_mb \in 0..MaxThresholdMb
    /\ min_free_space_mb \in 0..MaxFreeMb
    /\ mmap_fallback_enabled \in BOOLEAN
    /\ buffer = <<>>
    /\ is_large = FALSE
    /\ temp_file = <<>>
    /\ free_space = -1
    /\ spillDir = EmptyDir
    /\ streamPc = "reading"
    /\ streamResult = "none"
    /\ consumed = <<>>
    /\ createCalls = 0
    /\ createdAtChunk = 0
    /\ spillPath = "none"
    /\ sJob = NoJob
    /\ sEngineCalls = 0
    /\ ioLog = <<>>
    /\ spaceLog = <<>>
    /\ errorItem = 0

\* execute_stream returns: its result, and every local goes out of scope
StreamReturn(result, tf, dir) ==
    /\ streamPc' = "returned"
    /\ streamResult' = result
    /\ temp_file' = <<>>
    /\ spillDir' = DropTempFile(tf, dir)

\* loop body, !is_large, the chunk does not cross the threshold
BufferChunk ==
    /\ streamPc = "reading"
    /\ Len(consumed) < MaxChunks
    /\ ~is_large
    /\ \E n \in ChunkLens :
        /\ ~ExceedsThreshold(BufLen(buffer), n, Threshold)
        /\ buffer' = Extend(buffer, [id |-> Len(consumed) + 1, len |-> n])
        /\ consumed' = Append(consumed, n)
    /\ UNCHANGED << large_file_threshold_mb, min_free_space_mb, mmap_fallback_enabled,
                    is_large, temp_file, free_space, spillDir, streamPc, streamResult,
                    createCalls, createdAtChunk, spillPath, sJob, sEngineCalls,
                    ioLog, spaceLog, errorItem >>
    /\ UNCHANGED << pathVars, engVars, mmapVars, tempVars, nameVars, outcomeVars, httpVars >>

\* loop body, !is_large, the chunk crosses the threshold: the free-space
\* check, create_temp_file, and the two writes
CrossThreshold ==
    /\ streamPc = "reading"
    /\ Len(consumed) < MaxChunks
    /\ ~is_large
    /\ \E n \in ChunkLens, answer \in StatvfsAnswers :
        LET chunk == [id |-> Len(consumed) + 1, len |-> n]
            free == get_free_space_mb(answer)
        IN
        /\ ExceedsThreshold(BufLen(buffer), n, Threshold)
        /\ consumed' = Append(consumed, n)
        /\ spaceLog' = Append(spaceLog, answer)
        /\ free_space' = free
        /\ IF InsufficientSpace(free, min_free_space_mb)
           THEN /\ StreamReturn("InternalError", temp_file, spillDir)
                /\ UNCHANGED << buffer, is_large, createCalls, createdAtChunk, spillPath,
                                ioLog >>
           ELSE /\ is_large' = TRUE
                /\ createCalls' = createCalls + 1
                /\ createdAtChunk' = Len(consumed) + 1
                /\ \E outcome \in {"ok", "noFile", "leaked", "openFailed",
                                   "writeBufferFailed", "writeChunkFailed"} :
                     \/ /\ outcome = "noFile"
                        /\ StreamReturn("InternalError", <<>>, spillDir)
                        /\ UNCHANGED << buffer, spillPath, ioLog >>
                     \/ /\ outcome # "noFile"
                        /\ \E name \in TempNames \ DOMAIN spillDir :
                            LET h == FsTempFile_new(name)
                                created == FsPut(spillDir, name, <<>>)
                                withBuffer == FsPut(created, name, buffer)
                                withChunk == FsWrite(withBuffer, name, chunk)
                                first == FsTempFile_write(h, outcome # "writeBufferFailed")
                                second == FsTempFile_write(h, outcome # "writeChunkFailed")
                            IN  CASE outcome = "leaked" ->
                                       /\ StreamReturn("InternalError", <<>>, created)
                                       /\ UNCHANGED << buffer, spillPath, ioLog >>
                                  [] outcome = "openFailed" ->
                                       /\ StreamReturn("InternalError", << h >>, created)
                                       /\ UNCHANGED << buffer, spillPath, ioLog >>
                                  [] outcome \notin {"leaked", "openFailed"} /\ first # "Ok" ->
                                       /\ StreamReturn("InternalError", << h >>, created)
                                       /\ spillPath' = name
                                       /\ ioLog' = LogIo(ioLog, h, "write", FALSE)
                                       /\ UNCHANGED buffer
                                  [] outcome \notin {"leaked", "openFailed"} /\ first = "Ok"
                                       /\ second # "Ok" ->
                                       /\ StreamReturn("InternalError", << h >>, withBuffer)
                                       /\ spillPath' = name
                                       /\ ioLog' = LogIo(LogIo(ioLog, h, "write", TRUE),
                                                         h, "write", FALSE)
                                       /\ UNCHANGED buffer
                                  [] OTHER ->
                                       /\ spillDir' = withChunk
                                       /\ temp_file' = << h >>
                                       /\ spillPath' = name
                                       /\ ioLog' = LogIo(LogIo(ioLog, h, "write", TRUE),
                                                         h, "write", TRUE)
                                       /\ buffer' = <<>>
                                       /\ UNCHANGED << streamPc, streamResult >>
    /\ UNCHANGED << large_file_threshold_mb, min_free_space_mb, mmap_fallback_enabled,
                    sJob, sEngineCalls, errorItem >>
    /\ UNCHANGED << pathVars, engVars, mmapVars, tempVars, nameVars, outcomeVars, httpVars >>

\* loop body, is_large: the chunk is written to the spill file
AppendToSpill ==
    /\ streamPc = "reading"
    /\ Len(consumed) < MaxChunks
    /\ is_large
    /\ temp_file # <<>>
    /\ \E n \in ChunkLens, written \in BOOLEAN :
        LET result == FsTempFile_write(temp_file[1], written) IN
        /\ consumed' = Append(consumed, n)
        /\ ioLog' = LogIo(ioLog, temp_file[1], "write", written)
        /\ IF result = "Ok"
           THEN /\ spillDir' = FsWrite(spillDir, temp_file[1].handler.path,
                                       [id |-> Len(consumed) + 1, len |-> n])
                /\ UNCHANGED << temp_file, streamPc, streamResult >>
           ELSE StreamReturn("InternalError", temp_file, spillDir)
    /\ UNCHANGED << large_file_threshold_mb, min_free_space_mb, mmap_fallback_enabled,
                    buffer, is_large, free_space, createCalls, createdAtChunk,
                    spillPath, sJob, sEngineCalls, spaceLog, errorItem >>
    /\ UNCHANGED << pathVars, engVars, mmapVars, tempVars, nameVars, outcomeVars, httpVars >>

\* the stream yields an error item
StreamError ==
    /\ streamPc = "reading"
    /\ Len(consumed) < MaxChunks
    /\ errorItem' = Len(consumed) + 1
    /\ StreamReturn(StreamItemError, temp_file, spillDir)
    /\ UNCHANGED << large_file_threshold_mb, min_free_space_mb, mmap_fallback_enabled,
                    buffer, is_large, free_space, consumed, createCalls,
                    createdAtChunk, spillPath, sJob, sEngineCalls, ioLog, spaceLog >>
    /\ UNCHANGED << pathVars, engVars, mmapVars, tempVars, nameVars, outcomeVars, httpVars >>

\* the stream ends: sync and execute_from_file, or execute on the buffer, up
\* to the point where the caller awaits the dispatched job
StreamEnd ==
    /\ streamPc = "reading"
    /\ IF is_large
       THEN \E synced \in BOOLEAN :
              LET sync == FsTempFile_sync(temp_file[1], synced) IN
              /\ ioLog' = LogIo(ioLog, temp_file[1], "sync", synced)
              /\ IF sync.result = "Ok"
                 THEN /\ temp_file' = << sync.tf >>
                      /\ sJob' = [NoJob EXCEPT !.state = "queued", !.kind = "file",
                                               !.path = temp_file[1].handler.path]
                      /\ streamPc' = "awaiting"
                      /\ UNCHANGED << spillDir, streamResult >>
                 ELSE /\ StreamReturn("InternalError", << sync.tf >>, spillDir)
                      /\ UNCHANGED sJob
       ELSE /\ UNCHANGED ioLog
            /\ IF DataIsEmpty(buffer)
               THEN /\ StreamReturn("BadRequest", temp_file, spillDir)
                    /\ UNCHANGED sJob
               ELSE /\ sJob' = [NoJob EXCEPT !.state = "queued", !.kind = "buffer",
                                             !.data = buffer]
                    /\ streamPc' = "awaiting"
                    /\ UNCHANGED << temp_file, spillDir, streamResult >>
    /\ UNCHANGED << large_file_threshold_mb, min_free_space_mb, mmap_fallback_enabled,
                    buffer, is_large, free_space, consumed, createCalls,
                    createdAtChunk, spillPath, sEngineCalls, spaceLog, errorItem >>
    /\ UNCHANGED << pathVars, engVars, mmapVars, tempVars, nameVars, outcomeVars, httpVars >>

\* the blocking pool runs the job up to its native call: analyze_buffer
\* calls cookie.buffer; analyze_file opens and maps the file first
JobBegin ==
    /\ sJob.state = "queued"
    /\ IF sJob.kind = "buffer"
       THEN /\ sJob' = [sJob EXCEPT !.state = "native", !.call = "magic_buffer",
                                    !.input = sJob.data]
            /\ sEngineCalls' = sEngineCalls + 1
       ELSE \E opened \in BOOLEAN, mapped \in BOOLEAN :
              IF ~opened \/ sJob.path \notin DOMAIN spillDir
              THEN /\ sJob' = [sJob EXCEPT !.state = "done", !.result = "FileNotFound"]
                   /\ UNCHANGED sEngineCalls
              ELSE LET next == AnalyzeFileDispatch(mapped, mmap_fallback_enabled)
                       map == IF mapped THEN "ok" ELSE "failed"
                   IN  IF next = "AnalysisFailed"
                       THEN /\ sJob' = [sJob EXCEPT !.state = "done", !.result = next,
                                                    !.map = map]
                            /\ UNCHANGED sEngineCalls
                       ELSE /\ sJob' = [sJob EXCEPT !.state = "native", !.call = next,
                                                    !.input = spillDir[sJob.path],
                                                    !.map = map]
                            /\ sEngineCalls' = sEngineCalls + 1
    /\ UNCHANGED << large_file_threshold_mb, min_free_space_mb, mmap_fallback_enabled,
                    buffer, is_large, temp_file, free_space, spillDir, streamPc,
                    streamResult, consumed, createCalls, createdAtChunk, spillPath,
                    ioLog, spaceLog, errorItem >>
    /\ UNCHANGED << pathVars, engVars, mmapVars, tempVars, nameVars, outcomeVars, httpVars >>

\* a job that runs the native call again whenever the engine failed
FinishedJob_retried_on_failure(job, result) ==
    IF result = "Ok"
    THEN [job EXCEPT !.state = "done", !.result = result]
    ELSE [job EXCEPT !.state = "queued"]

\* the spawn_blocking closure returns what the one native call produced
FinishedJob(job, result) ==
    [job EXCEPT !.state = "done", !.result = result]

\* the native call returns: a MIME string, NULL, or a string MimeType rejects
JobFinish ==
    /\ sJob.state = "native"
    /\ \E native \in {"mime", "null", "badMime"} :
        sJob' = FinishedJob(sJob, IF native = "mime" THEN "Ok" ELSE "AnalysisFailed")
    /\ UNCHANGED << large_file_threshold_mb, min_free_space_mb, mmap_fallback_enabled,
                    buffer, is_large, temp_file, free_space, spillDir, streamPc,
                    streamResult, consumed, createCalls, createdAtChunk, spillPath,
                    sEngineCalls,
                    ioLog, spaceLog, errorItem >>
    /\ UNCHANGED << pathVars, engVars, mmapVars, tempVars, nameVars, outcomeVars, httpVars >>

\* the awaiting caller is woken by the finished job
AwaitReturns ==
    /\ streamPc = "awaiting"
    /\ TimeoutPoll(sJob, FALSE) = "Ready"
    /\ StreamReturn(JobToApplicationResult(sJob.result), temp_file, spillDir)
    /\ UNCHANGED << large_file_threshold_mb, min_free_space_mb, mmap_fallback_enabled,
                    buffer, is_large, free_space, consumed, createCalls,
                    createdAtChunk, spillPath, sJob, sEngineCalls,
                    ioLog, spaceLog, errorItem >>
    /\ UNCHANGED << pathVars, engVars, mmapVars, tempVars, nameVars, outcomeVars, httpVars >>

\* analysis_timeout_secs elapses while the caller awaits
DeadlineElapses ==
    /\ streamPc = "awaiting"
    /\ TimeoutPoll(sJob, TRUE) # "Pending"
    /\ StreamReturn(DeadlineResult(sJob), temp_file, spillDir)
    /\ UNCHANGED << large_file_threshold_mb, min_free_space_mb, mmap_fallback_enabled,
                    buffer, is_large, free_space, consumed, createCalls,
                    createdAtChunk, spillPath, sJob, sEngineCalls,
                    ioLog, spaceLog, errorItem >>
    /\ UNCHANGED << pathVars, engVars, mmapVars, tempVars, nameVars, outcomeVars, httpVars >>

\* main: the background cleanup task removes a file of the spill directory
\* whose age exceeds temp_file_max_age_secs
Sweep ==
    /\ streamPc # "idle"
    /\ \E n \in DOMAIN spillDir : spillDir' = FsRemove(spillDir, n)
    /\ UNCHANGED << large_file_threshold_mb, min_free_space_mb, mmap_fallback_enabled,
                    buffer, is_large, temp_file, free_space, streamPc, streamResult,
                    consumed, createCalls, createdAtChunk, spillPath, sJob,
                    sEngineCalls,
                    ioLog, spaceLog, errorItem >>
    /\ UNCHANGED << pathVars, engVars, mmapVars, tempVars, nameVars, outcomeVars, httpVars >>

\* ------------------------------------------------------------------------
\* Rest states of the filename, MagicResult and HTTP parts
\* ------------------------------------------------------------------------

\* number of MagicResult slots that is enumerated
MaxOutcomes == 3

OutcomeSlots == 1..MaxOutcomes

\* an empty slot; in a MagicResult, built is the MagicResult::new call the
\* value descends from
NoOutcome == [id |-> 0, built |-> 0, request_id |-> "none", filename |-> << >>,
              mime_type |-> "none", description |-> "none", encoding |-> "None"]

\* number of concurrent HTTP requests that is enumerated
NRequests == 2

Requests == 1..NRequests

NoHeader == [scheme |-> "none", decodable |-> FALSE, payload |-> << >>]

NoInput == [route |-> "none", authorization |-> NoHeader, filename |-> << >>,
            path |-> << >>, body |-> << >>, target |-> "none"]

\* a request that has not arrived; of a request in flight: consumed counts
\* the body chunks read, opened the files opened, mapped the mappings made,
\* spills the spill files created, engineCalls the native calls started, and
\* spillLive says that its spill file exists
NoRequest == [pc |-> "idle", input |-> NoInput, status |-> 0,
              consumed |-> 0, buffer |-> << >>, is_large |-> FALSE,
              spillLive |-> FALSE, opened |-> 0, mapped |-> 0, spills |-> 0,
              engineCalls |-> 0, job |-> NoJob]

FilenameIdle ==
    /\ filename = << >>
    /\ fnResult = NoResult

OutcomesIdle ==
    /\ outcomes = [k \in OutcomeSlots |-> NoOutcome]
    /\ uuidsDrawn = 0

HttpIdle ==
    /\ http = [r \in Requests |-> NoRequest]
    /\ hGuard = 0
    /\ max_connections = 0

EdgeIdle == FilenameIdle /\ OutcomesIdle /\ HttpIdle

\* ------------------------------------------------------------------------
\* The engine adapter shared by concurrent callers
\* ------------------------------------------------------------------------

\* number of concurrent callers that is enumerated
NCallers == 2

Callers == 1..NCallers

\* the holder of the guard during LibmagicRepository::new
Constructor == NCallers + 1

EntryPoints == {"execute", "execute_from_file", "path_execute"}

\* a guard that never blocks, as if every call locked a mutex of its own
MutexAvailable_never_blocks(holder) == TRUE

\* Mutex::lock returns only while no other guard is alive
MutexAvailable(holder) == holder = 0

EngineIdle ==
    /\ enginePc = "idle"
    /\ mutexHolder = 0
    /\ callerPc = [c \in Callers |-> "idle"]
    /\ callerKind = [c \in Callers |-> "none"]
    /\ callerResult = [c \in Callers |-> "none"]
    /\ jobs = [c \in Callers |-> NoJob]
    /\ elapsedPending = [c \in Callers |-> FALSE]
    /\ loadLog = << >>

InitEngine ==
    /\ enginePc = "unopened"
    /\ mutexHolder = 0
    /\ callerPc = [c \in Callers |-> "idle"]
    /\ callerKind = [c \in Callers |-> "none"]
    /\ callerResult = [c \in Callers |-> "none"]
    /\ jobs = [c \in Callers |-> NoJob]
    /\ elapsedPending = [c \in Callers |-> FALSE]
    /\ loadLog = << >>
    /\ StreamLocalsIdle
    /\ mmap_fallback_enabled \in BOOLEAN
    /\ PathIdle
    /\ MmapIdle
    /\ TempIdle
    /\ EdgeIdle

\* what magic_load returns: 0 when the database was loaded, -1 otherwise
MagicLoadAnswers == {0, -1}

\* a load that reports success whatever magic_load returned
LoadSucceeded_unchecked(rc) == TRUE

\* MagicCookie::load is Ok only when magic_load returned 0
LoadSucceeded(rc) == rc = 0

\* LibmagicRepository::new: MagicCookie::open, then load takes the guard
\* and calls magic_load
EngineOpen ==
    /\ enginePc = "unopened"
    /\ \E opened \in BOOLEAN :
        IF opened /\ MutexAvailable(mutexHolder)
        THEN enginePc' = "loading" /\ mutexHolder' = Constructor
        ELSE enginePc' = "failed" /\ UNCHANGED mutexHolder
    /\ UNCHANGED << callerPc, callerKind, callerResult, jobs, elapsedPending >>
    /\ UNCHANGED loadLog
    /\ UNCHANGED << pathVars, streamVars, mmapVars, tempVars, nameVars, outcomeVars, httpVars >>

\* magic_load returns; the guard is dropped on both paths
EngineLoaded ==
    /\ enginePc = "loading"
    /\ \E rc \in MagicLoadAnswers :
        /\ loadLog' = Append(loadLog, rc)
        /\ enginePc' = IF LoadSucceeded(rc) THEN "ready" ELSE "failed"
    /\ mutexHolder' = 0
    /\ UNCHANGED << callerPc, callerKind, callerResult, jobs, elapsedPending >>
    /\ UNCHANGED << pathVars, streamVars, mmapVars, tempVars, nameVars, outcomeVars, httpVars >>

\* an entry point runs up to the await of its engine call: execute rejects
\* empty data; AnalyzePathUseCase::execute opens and maps the file;
\* execute_from_file dispatches at once
Dispatch(c) ==
    /\ enginePc = "ready"
    /\ callerPc[c] = "idle"
    /\ \E kind \in EntryPoints, pre \in {"ok", "empty", "notFound", "openFailed", "mmapFailed"} :
        /\ pre = "empty" => kind = "execute"
        /\ pre \in {"notFound", "openFailed", "mmapFailed"} => kind = "path_execute"
        /\ callerKind' = [callerKind EXCEPT ![c] = kind]
        /\ IF pre = "ok"
           THEN /\ callerPc' = [callerPc EXCEPT ![c] = "awaiting"]
                /\ jobs' = [jobs EXCEPT ![c] =
                              [NoJob EXCEPT !.state = "queued",
                                            !.kind = IF kind = "execute_from_file"
                                                     THEN "file" ELSE "buffer"]]
                /\ UNCHANGED callerResult
           ELSE /\ callerPc' = [callerPc EXCEPT ![c] = "returned"]
                /\ callerResult' = [callerResult EXCEPT ![c] =
                              CASE pre = "empty" -> "BadRequest"
                                [] pre = "notFound" -> "NotFound"
                                [] OTHER -> "InternalError"]
                /\ UNCHANGED jobs
    /\ UNCHANGED << enginePc, mutexHolder, elapsedPending >>
    /\ UNCHANGED loadLog
    /\ UNCHANGED << pathVars, streamVars, mmapVars, tempVars, nameVars, outcomeVars, httpVars >>

\* the blocking pool starts the job: analyze_file opens and maps the file,
\* then the job reaches MagicCookie::buffer or MagicCookie::file
JobStart(c) ==
    /\ jobs[c].state = "queued"
    /\ IF jobs[c].kind = "buffer"
       THEN jobs' = [jobs EXCEPT ![c].state = "wantLock", ![c].call = "magic_buffer"]
       ELSE \E opened \in BOOLEAN, mapped \in BOOLEAN :
              jobs' = [jobs EXCEPT ![c] =
                  IF ~opened
                  THEN [@ EXCEPT !.state = "done", !.result = "FileNotFound"]
                  ELSE IF AnalyzeFileDispatch(mapped, mmap_fallback_enabled) = "AnalysisFailed"
                  THEN [@ EXCEPT !.state = "done", !.result = "AnalysisFailed",
                                 !.map = "failed"]
                  ELSE [@ EXCEPT !.state = "wantLock",
                                 !.call = AnalyzeFileDispatch(mapped, mmap_fallback_enabled),
                                 !.map = IF mapped THEN "ok" ELSE "failed"]]
    /\ UNCHANGED << enginePc, mutexHolder, callerPc, callerKind, callerResult,
                    elapsedPending >>
    /\ UNCHANGED loadLog
    /\ UNCHANGED << pathVars, streamVars, mmapVars, tempVars, nameVars, outcomeVars, httpVars >>

\* MagicCookie::buffer / file: self.inner.lock() succeeds and the native
\* call starts
JobLock(c) ==
    /\ jobs[c].state = "wantLock"
    /\ MutexAvailable(mutexHolder)
    /\ mutexHolder' = c
    /\ jobs' = [jobs EXCEPT ![c].state = "native"]
    /\ UNCHANGED << enginePc, callerPc, callerKind, callerResult, elapsedPending >>
    /\ UNCHANGED loadLog
    /\ UNCHANGED << pathVars, streamVars, mmapVars, tempVars, nameVars, outcomeVars, httpVars >>

\* get_error locking the handle it is given
get_error_locks(holder) == MutexAvailable(holder)

\* MagicCookie::get_error(&self, ms): it is handed the raw handle by the
\* holder of the guard and takes no lock, so it runs whoever holds the guard
get_error(holder) == TRUE

\* magic_buffer / magic_file returns: a string, and the guard is dropped when
\* buffer / file returns; or NULL, and get_error is called under the guard
JobNativeReturn(c) ==
    /\ jobs[c].state = "native"
    /\ \E native \in {"mime", "null", "badMime"} :
        IF native = "null"
        THEN /\ jobs' = [jobs EXCEPT ![c].state = "getError"]
             /\ UNCHANGED mutexHolder
        ELSE /\ jobs' = [jobs EXCEPT ![c].state = "done",
                                     ![c].result = IF native = "mime" THEN "Ok"
                                                   ELSE "AnalysisFailed"]
             /\ mutexHolder' = IF mutexHolder = c THEN 0 ELSE mutexHolder
    /\ UNCHANGED << enginePc, callerPc, callerKind, callerResult, elapsedPending >>
    /\ UNCHANGED loadLog
    /\ UNCHANGED << pathVars, streamVars, mmapVars, tempVars, nameVars, outcomeVars, httpVars >>

\* get_error has read magic_error's text; buffer / file returns
\* Err(AnalysisFailed) and the guard is dropped
JobGetError(c) ==
    /\ jobs[c].state = "getError"
    /\ get_error(mutexHolder)
    /\ jobs' = [jobs EXCEPT ![c].state = "done", ![c].result = "AnalysisFailed"]
    /\ mutexHolder' = IF mutexHolder = c THEN 0 ELSE mutexHolder
    /\ UNCHANGED << enginePc, callerPc, callerKind, callerResult, elapsedPending >>
    /\ UNCHANGED loadLog
    /\ UNCHANGED << pathVars, streamVars, mmapVars, tempVars, nameVars, outcomeVars, httpVars >>

\* the awaiting caller is woken by its finished job
CallerResumes(c) ==
    /\ callerPc[c] = "awaiting"
    /\ TimeoutPoll(jobs[c], FALSE) = "Ready"
    /\ callerPc' = [callerPc EXCEPT ![c] = "returned"]
    /\ callerResult' = [callerResult EXCEPT ![c] = JobToApplicationResult(jobs[c].result)]
    /\ UNCHANGED << enginePc, mutexHolder, callerKind, jobs, elapsedPending >>
    /\ UNCHANGED loadLog
    /\ UNCHANGED << pathVars, streamVars, mmapVars, tempVars, nameVars, outcomeVars, httpVars >>

\* a timeout that aborts the unfinished blocking job with its future
JoinHandle_drop_aborts(job) ==
    IF job.state = "done" THEN job ELSE NoJob

\* timeout drops the future and with it the JoinHandle of spawn_blocking:
\* the closure stays on the blocking pool, queued or running
JoinHandle_drop(job) == job

\* analysis_timeout_secs elapses while the caller awaits
CallerDeadline(c) ==
    /\ callerPc[c] = "awaiting"
    /\ TimeoutPoll(jobs[c], TRUE) # "Pending"
    /\ callerPc' = [callerPc EXCEPT ![c] = "returned"]
    /\ callerResult' = [callerResult EXCEPT ![c] = DeadlineResult(jobs[c])]
    /\ elapsedPending' = [elapsedPending EXCEPT ![c] = jobs[c].state # "done"]
    /\ jobs' = [jobs EXCEPT ![c] = JoinHandle_drop(jobs[c])]
    /\ UNCHANGED << enginePc, mutexHolder, callerKind >>
    /\ UNCHANGED loadLog
    /\ UNCHANGED << pathVars, streamVars, mmapVars, tempVars, nameVars, outcomeVars, httpVars >>

\* ------------------------------------------------------------------------
\* MmapHandler: new, as_slice and Drop
\* ------------------------------------------------------------------------

\* MAP_FAILED
MapFailed == -1

\* MmapHandler::new calling mmap whatever the length is
MmapHandler_new_maps_always(len) == TRUE

\* MmapHandler::new: whether libc::mmap is called for a file of this length
MmapHandler_new_maps(len) == len # 0

\* Drop calling munmap also for the null address
MmapHandler_drop_unmaps_always(h) == TRUE

\* impl Drop for MmapHandler: whether libc::munmap is called
MmapHandler_drop_unmaps(h) == h.addr # NullAddr

\* MmapHandler::as_slice: the length of the slice it returns
MmapHandler_as_slice(h) == IF h.len = 0 THEN 0 ELSE h.len

\* what the kernel may answer to mmap(NULL, len, ...): a zero length is
\* rejected, otherwise the call fails or returns an address not in use
MmapAnswers(len) ==
    IF len = 0 THEN {MapFailed} ELSE {MapFailed} \cup (Addrs \ DOMAIN mappings)

InitMmap ==
    /\ mFileLen \in [Mappers -> 0..MaxFileLen]
    /\ mPc = [h \in Mappers |-> "start"]
    /\ mHandler = [h \in Mappers |-> <<>>]
    /\ mErr = [h \in Mappers |-> "none"]
    /\ mSlice = [h \in Mappers |-> -1]
    /\ mappings = NoMappings
    /\ mmapCalls = [h \in Mappers |-> 0]
    /\ munmapCalls = [h \in Mappers |-> 0]
    /\ SIGBUS_OCCURRED = FALSE
    /\ sigbusAction = "default"
    /\ processAlive = TRUE
    /\ mFaults = [h \in Mappers |-> 0]
    /\ mResult = [h \in Mappers |-> "none"]

\* the handler left as it was
Sigaction_skipped(action) == action

\* MmapHandler::new: libc::sigaction(SIGBUS, &sa, null) with sa.sa_sigaction
\* set to handle_sigbus
Sigaction(action) == "handle_sigbus"

\* a handler that leaves the flag alone
handle_sigbus_without_store(flag) == flag

\* handle_sigbus: SIGBUS_OCCURRED.store(true), then it returns
handle_sigbus(flag) == TRUE

\* MmapHandler::clear_sigbus_flag
clear_sigbus_flag(flag) == FALSE

\* MmapHandler::check_sigbus_flag
check_sigbus_flag(flag) == flag

\* the kernel delivers SIGBUS to a thread reading a mapping: the default
\* action terminates the process, a handler runs and returns
SigbusDelivery(action, flag) ==
    IF action = "default"
    THEN [alive |-> FALSE, flag |-> flag]
    ELSE [alive |-> TRUE, flag |-> handle_sigbus(flag)]

\* MmapHandler::new(&file), up to the return of libc::mmap
MmapNew(h) ==
    /\ processAlive
    /\ mPc[h] = "start"
    /\ \E metadataOk \in BOOLEAN :
        LET len == mFileLen[h] IN
        IF ~metadataOk
        THEN /\ mPc' = [mPc EXCEPT ![h] = "failed"]
             /\ mErr' = [mErr EXCEPT ![h] = "metadata"]
             /\ UNCHANGED << mHandler, mappings, mmapCalls >>
        ELSE IF ~MmapHandler_new_maps(len)
        THEN /\ mPc' = [mPc EXCEPT ![h] = "live"]
             /\ mHandler' = [mHandler EXCEPT ![h] = << [addr |-> NullAddr, len |-> 0] >>]
             /\ UNCHANGED << mErr, mappings, mmapCalls >>
        ELSE /\ mmapCalls' = [mmapCalls EXCEPT ![h] = @ + 1]
             /\ \E addr \in MmapAnswers(len) :
                  IF addr = MapFailed
                  THEN /\ mPc' = [mPc EXCEPT ![h] = "failed"]
                       /\ mErr' = [mErr EXCEPT ![h] = "mmap"]
                       /\ UNCHANGED << mHandler, mappings >>
                  ELSE /\ mPc' = [mPc EXCEPT ![h] = "mapped"]
                       /\ mHandler' = [mHandler EXCEPT ![h] = << [addr |-> addr, len |-> len] >>]
                       /\ mappings' = [a \in DOMAIN mappings \cup {addr} |->
                                        IF a = addr THEN len ELSE mappings[a]]
                       /\ UNCHANGED mErr
    /\ UNCHANGED << mFileLen, mSlice, munmapCalls, SIGBUS_OCCURRED, sigbusAction,
                    processAlive, mFaults, mResult >>
    /\ UNCHANGED << pathVars, streamVars, engVars, tempVars, nameVars, outcomeVars, httpVars >>

\* MmapHandler::new, after a successful mmap: the handler is installed and
\* the MmapHandler returned
MmapInstall(h) ==
    /\ processAlive
    /\ mPc[h] = "mapped"
    /\ sigbusAction' = Sigaction(sigbusAction)
    /\ mPc' = [mPc EXCEPT ![h] = "live"]
    /\ UNCHANGED << mFileLen, mHandler, mErr, mSlice, mappings, mmapCalls, munmapCalls,
                    SIGBUS_OCCURRED, processAlive, mFaults, mResult >>
    /\ UNCHANGED << pathVars, streamVars, engVars, tempVars, nameVars, outcomeVars, httpVars >>

\* handler.as_slice()
MmapAsSlice(h) ==
    /\ processAlive
    /\ mPc[h] = "live"
    /\ mSlice[h] = -1
    /\ mSlice' = [mSlice EXCEPT ![h] = MmapHandler_as_slice(mHandler[h][1])]
    /\ UNCHANGED << mFileLen, mPc, mHandler, mErr, mappings, mmapCalls, munmapCalls,
                    SIGBUS_OCCURRED, sigbusAction, processAlive, mFaults, mResult >>
    /\ UNCHANGED << pathVars, streamVars, engVars, tempVars, nameVars, outcomeVars, httpVars >>

\* cookie.buffer(mmap.as_slice()) takes the engine guard and magic_buffer
\* starts to read the slice; the guard admits one reader at a time
MmapReadStart(h) ==
    /\ processAlive
    /\ mPc[h] = "live"
    /\ mSlice[h] # -1
    /\ mResult[h] = "none"
    /\ \A g \in Mappers : mPc[g] # "reading"
    /\ mPc' = [mPc EXCEPT ![h] = "reading"]
    /\ UNCHANGED << mFileLen, mHandler, mErr, mSlice, mappings, mmapCalls, munmapCalls,
                    SIGBUS_OCCURRED, sigbusAction, processAlive, mFaults, mResult >>
    /\ UNCHANGED << pathVars, streamVars, engVars, tempVars, nameVars, outcomeVars, httpVars >>

\* the file was truncated or its storage went away: a load from the mapping
\* raises SIGBUS; when the handler returns the load is executed again
MmapFault(h) ==
    /\ processAlive
    /\ mPc[h] = "reading"
    /\ mHandler[h][1].len > 0
    /\ mFaults[h] < MaxFaults
    /\ LET after == SigbusDelivery(sigbusAction, SIGBUS_OCCURRED) IN
        /\ processAlive' = after.alive
        /\ SIGBUS_OCCURRED' = after.flag
    /\ mFaults' = [mFaults EXCEPT ![h] = @ + 1]
    /\ UNCHANGED << mFileLen, mPc, mHandler, mErr, mSlice, mappings, mmapCalls,
                    munmapCalls, sigbusAction, mResult >>
    /\ UNCHANGED << pathVars, streamVars, engVars, tempVars, nameVars, outcomeVars, httpVars >>

\* magic_buffer returns and cookie.buffer releases the guard: a MIME string
\* or an engine error
MmapReadEnd(h) ==
    /\ processAlive
    /\ mPc[h] = "reading"
    /\ \E result \in {"Ok", "AnalysisFailed"} :
        mResult' = [mResult EXCEPT ![h] = result]
    /\ mPc' = [mPc EXCEPT ![h] = "live"]
    /\ UNCHANGED << mFileLen, mHandler, mErr, mSlice, mappings, mmapCalls, munmapCalls,
                    SIGBUS_OCCURRED, sigbusAction, processAlive, mFaults >>
    /\ UNCHANGED << pathVars, streamVars, engVars, tempVars, nameVars, outcomeVars, httpVars >>

\* the handler goes out of scope
MmapDrop(h) ==
    /\ processAlive
    /\ mPc[h] = "live"
    /\ LET hd == mHandler[h][1] IN
        IF MmapHandler_drop_unmaps(hd)
        THEN /\ munmapCalls' = [munmapCalls EXCEPT ![h] = @ + 1]
             /\ mappings' = [a \in DOMAIN mappings \ {hd.addr} |-> mappings[a]]
        ELSE UNCHANGED << munmapCalls, mappings >>
    /\ mPc' = [mPc EXCEPT ![h] = "dropped"]
    /\ mHandler' = [mHandler EXCEPT ![h] = <<>>]
    /\ UNCHANGED << mFileLen, mErr, mSlice, mmapCalls, SIGBUS_OCCURRED, sigbusAction,
                    processAlive, mFaults, mResult >>
    /\ UNCHANGED << pathVars, streamVars, engVars, tempVars, nameVars, outcomeVars, httpVars >>

\* ------------------------------------------------------------------------
\* TempFileHandler: create_temp_file, cleanup and Drop
\* ------------------------------------------------------------------------

\* create_temp_file: MAX_RETRIES
MAX_RETRIES == 10

\* create_temp_file: set_mode(0o600)
OwnerOnlyMode == 384

\* the retry bound tested with > in place of >=
RetriesExhausted_late(retries) == retries > MAX_RETRIES

\* create_temp_file: retries >= MAX_RETRIES
RetriesExhausted(retries) == retries >= MAX_RETRIES

\* the open with create(true).truncate(true) in place of create_new(true)
OpenCreateNew_truncating(dir, name, mode, c) ==
    [err |-> "none",
     dir |-> IF name \in DOMAIN dir
             THEN FsPut(dir, name, [dir[name] EXCEPT !.content = <<>>])
             ELSE FsPut(dir, name, [content |-> <<>>, mode |-> mode, by |-> c])]

\* OpenOptions::new().write(true).create_new(true).open(&path): the error
\* kind, and the directory afterwards
OpenCreateNew(dir, name, mode, c) ==
    IF name \in DOMAIN dir
    THEN [err |-> "AlreadyExists", dir |-> dir]
    ELSE [err |-> "none",
          dir |-> FsPut(dir, name, [content |-> <<>>, mode |-> mode, by |-> c])]

\* the permission change left out
SetPermissions_skipped(f) == f

\* perms.set_mode(0o600); fs::set_permissions(&path, perms)
SetPermissions(f) == [f EXCEPT !.mode = OwnerOnlyMode]

InitTemp ==
    /\ tDir \in { [n \in 1..k |-> ForeignFile] : k \in 0..MaxForeign }
    /\ tPc = [c \in Creators |-> "start"]
    /\ tData = [c \in Creators |-> <<>>]
    /\ tRetries = [c \in Creators |-> 0]
    /\ tOpenLog = [c \in Creators |-> <<>>]
    /\ tPath = [c \in Creators |-> 0]
    /\ tHandler = [c \in Creators |-> <<>>]
    /\ tResult = [c \in Creators |-> "none"]
    /\ tAtReturn = [c \in Creators |-> NoFile]
    /\ tCleanupLog = [c \in Creators |-> <<>>]
    /\ tRemovals = [c \in Creators |-> 0]
    /\ tNextName = MaxForeign + 1

\* create_temp_file(data, base_dir) up to the retry loop: create_dir_all
TempBegin(c) ==
    /\ tPc[c] = "start"
    /\ \E data \in DataInputs, dirOk \in BOOLEAN :
        /\ tData' = [tData EXCEPT ![c] = data]
        /\ tPc' = [tPc EXCEPT ![c] = IF dirOk THEN "attempt" ELSE "failed"]
        /\ tResult' = [tResult EXCEPT ![c] = IF dirOk THEN "none" ELSE "Io"]
    /\ UNCHANGED << tDir, tRetries, tOpenLog, tPath, tHandler, tAtReturn,
                    tCleanupLog, tRemovals, tNextName >>
    /\ UNCHANGED << pathVars, streamVars, engVars, mmapVars, nameVars, outcomeVars, httpVars >>

\* one iteration of the retry loop: generate_unique_filename and the open
TempAttempt(c) ==
    /\ tPc[c] = "attempt"
    /\ \E cand \in DOMAIN tDir \cup {tNextName}, mode \in CreationModes,
          ioError \in BOOLEAN :
        LET opened == OpenCreateNew(tDir, cand, mode, c) IN
        /\ tNextName' = IF cand = tNextName THEN tNextName + 1 ELSE tNextName
        /\ IF ioError
           THEN /\ tOpenLog' = [tOpenLog EXCEPT ![c] = Append(@, "Io")]
                /\ tPc' = [tPc EXCEPT ![c] = "failed"]
                /\ tResult' = [tResult EXCEPT ![c] = "Io"]
                /\ UNCHANGED << tDir, tRetries, tPath >>
           ELSE IF opened.err = "AlreadyExists"
           THEN /\ tOpenLog' = [tOpenLog EXCEPT ![c] = Append(@, "AlreadyExists")]
                /\ tRetries' = [tRetries EXCEPT ![c] = @ + 1]
                /\ IF RetriesExhausted(tRetries[c] + 1)
                   THEN /\ tPc' = [tPc EXCEPT ![c] = "failed"]
                        /\ tResult' = [tResult EXCEPT ![c] = "MaxRetriesExceeded"]
                   ELSE UNCHANGED << tPc, tResult >>
                /\ UNCHANGED << tDir, tPath >>
           ELSE /\ tOpenLog' = [tOpenLog EXCEPT ![c] = Append(@, "Ok")]
                /\ tDir' = opened.dir
                /\ tPath' = [tPath EXCEPT ![c] = cand]
                /\ tPc' = [tPc EXCEPT ![c] = "opened"]
                /\ UNCHANGED << tRetries, tResult >>
    /\ UNCHANGED << tData, tHandler, tAtReturn, tCleanupLog, tRemovals >>
    /\ UNCHANGED << pathVars, streamVars, engVars, mmapVars, nameVars, outcomeVars, httpVars >>

\* after the open succeeded: write_all, sync_all, the permission change and
\* the return; each ? returns the error as it is.  The writes go through the
\* descriptor; set_permissions goes through the path and fails when the
\* entry is gone.
TempFinish(c) ==
    /\ tPc[c] = "opened"
    /\ LET p == tPath[c]
           present == p \in DOMAIN tDir
           data == tData[c]
       IN \E outcome \in {"ok", "writeFailed", "syncFailed", "chmodFailed"},
             k \in 0..MaxDataLen :
            /\ outcome = "ok" => present /\ k = Len(data)
            /\ outcome = "writeFailed" => k < Len(data)
            /\ outcome \in {"syncFailed", "chmodFailed"} => k = Len(data)
            /\ LET written == IF present
                              THEN [tDir[p] EXCEPT !.content = SubSeq(data, 1, k)]
                              ELSE NoFile
                   final == IF outcome = "ok" THEN SetPermissions(written) ELSE written
               IN /\ tDir' = IF present THEN FsPut(tDir, p, final) ELSE tDir
                  /\ IF outcome = "ok"
                     THEN /\ tHandler' = [tHandler EXCEPT ![c] =
                                             << [path |-> p, cleaned_up |-> FALSE] >>]
                          /\ tResult' = [tResult EXCEPT ![c] = "Ok"]
                          /\ tAtReturn' = [tAtReturn EXCEPT ![c] = final]
                          /\ tPc' = [tPc EXCEPT ![c] = "held"]
                     ELSE /\ tResult' = [tResult EXCEPT ![c] = "Io"]
                          /\ tPc' = [tPc EXCEPT ![c] = "failed"]
                          /\ UNCHANGED << tHandler, tAtReturn >>
    /\ UNCHANGED << tData, tRetries, tOpenLog, tPath, tCleanupLog, tRemovals,
                    tNextName >>
    /\ UNCHANGED << pathVars, streamVars, engVars, mmapVars, nameVars, outcomeVars, httpVars >>

\* cleanup(), up to and including self.path.exists()
TempCleanupCheck(c) ==
    /\ tPc[c] = "held"
    /\ Len(tCleanupLog[c]) < MaxCleanups
    /\ LET h == tHandler[c][1] IN
        IF h.cleaned_up
        THEN /\ tCleanupLog' = [tCleanupLog EXCEPT ![c] = Append(@, "Ok")]
             /\ UNCHANGED << tPc, tHandler >>
        ELSE IF h.path \notin DOMAIN tDir
        THEN /\ tHandler' = [tHandler EXCEPT ![c] = << [h EXCEPT !.cleaned_up = TRUE] >>]
             /\ tCleanupLog' = [tCleanupLog EXCEPT ![c] = Append(@, "Ok")]
             /\ UNCHANGED tPc
        ELSE /\ tPc' = [tPc EXCEPT ![c] = "removing"]
             /\ UNCHANGED << tHandler, tCleanupLog >>
    /\ UNCHANGED << tDir, tData, tRetries, tOpenLog, tPath, tResult, tAtReturn,
                    tRemovals, tNextName >>
    /\ UNCHANGED << pathVars, streamVars, engVars, mmapVars, nameVars, outcomeVars, httpVars >>

\* cleanup(), fs::remove_file(&self.path)? and what follows it
TempCleanupRemove(c) ==
    /\ tPc[c] = "removing"
    /\ LET h == tHandler[c][1] IN
        IF h.path \in DOMAIN tDir
        THEN /\ tDir' = FsRemove(tDir, h.path)
             /\ tRemovals' = [tRemovals EXCEPT ![c] = @ + 1]
             /\ tHandler' = [tHandler EXCEPT ![c] = << [h EXCEPT !.cleaned_up = TRUE] >>]
             /\ tCleanupLog' = [tCleanupLog EXCEPT ![c] = Append(@, "Ok")]
        ELSE /\ tCleanupLog' = [tCleanupLog EXCEPT ![c] = Append(@, "Err")]
             /\ UNCHANGED << tDir, tRemovals, tHandler >>
    /\ tPc' = [tPc EXCEPT ![c] = "held"]
    /\ UNCHANGED << tData, tRetries, tOpenLog, tPath, tResult, tAtReturn, tNextName >>
    /\ UNCHANGED << pathVars, streamVars, engVars, mmapVars, nameVars, outcomeVars, httpVars >>

\* the owner drops its handler: Drop runs cleanup and discards its result
TempDrop(c) ==
    /\ tPc[c] = "held"
    /\ LET h == tHandler[c][1]
           after == TempFileHandler_cleanup(h, tDir)
       IN /\ tDir' = after.dir
          /\ tRemovals' = [tRemovals EXCEPT ![c] = IF after.dir # tDir THEN @ + 1 ELSE @]
    /\ tHandler' = [tHandler EXCEPT ![c] = <<>>]
    /\ tPc' = [tPc EXCEPT ![c] = "dropped"]
    /\ UNCHANGED << tData, tRetries, tOpenLog, tPath, tResult, tAtReturn,
                    tCleanupLog, tNextName >>
    /\ UNCHANGED << pathVars, streamVars, engVars, mmapVars, nameVars, outcomeVars, httpVars >>

\* main: the background cleanup task removes a file of the directory whose
\* age exceeds temp_file_max_age_secs
TempSweep ==
    /\ \E c \in Creators : tPc[c] # "idle"
    /\ \E n \in DOMAIN tDir : tDir' = FsRemove(tDir, n)
    /\ UNCHANGED << tPc, tData, tRetries, tOpenLog, tPath, tHandler, tResult,
                    tAtReturn, tCleanupLog, tRemovals, tNextName >>
    /\ UNCHANGED << pathVars, streamVars, engVars, mmapVars, nameVars, outcomeVars, httpVars >>

\* ------------------------------------------------------------------------
\* WindowsCompatibleFilename::new
\* ------------------------------------------------------------------------

\* longest filename, in characters, that is enumerated
MaxNameLen == 311

\* const MAX_LENGTH
MAX_LENGTH == 310

\* the characters new rejects
ReservedChars == {"/", "\\", ":", "*", "?", "\"", "<", ">", "|", "NUL"}

\* characters a filename is filled with: an ASCII letter and characters whose
\* UTF-8 encodings take two, three and four bytes
FillChars == {"a", "e-acute", "cjk", "emoji"}

\* number of bytes of the UTF-8 encoding of a character
Utf8Len(c) ==
    CASE c = "e-acute" -> 2
      [] c = "cjk" -> 3
      [] c = "emoji" -> 4
      [] OTHER -> 1

\* str::len: the length of the string in bytes, summed by halves
RECURSIVE StrLen(_)
StrLen(str) ==
    IF Len(str) = 0 THEN 0
    ELSE IF Len(str) = 1 THEN Utf8Len(str[1])
    ELSE LET half == Len(str) \div 2
         IN  StrLen(SubSeq(str, 1, half)) + StrLen(SubSeq(str, half + 1, Len(str)))

Repeat(c, n) == [i \in 1..n |-> c]

\* filenames that are enumerated: a run of one character, then at most one
\* more character
FilenameInputs ==
    { Repeat(c, n) \o tail :
        c \in FillChars, n \in 0..MaxNameLen,
        tail \in { << >>, << "a" >>, << "/" >>, << "NUL" >>, << "|" >> } }

\* a constructor that validates nothing
WindowsCompatibleFilename_new_unchecked(name) == Ok(name)

WindowsCompatibleFilename_new(name) ==
    IF Len(name) = 0 THEN Err("EmptyValue")
    ELSE IF StrLen(name) > MAX_LENGTH THEN Err("ExceedsMaxLength")
    ELSE IF \E i \in 1..Len(name) : name[i] \in ReservedChars THEN Err("InvalidCharacter")
    ELSE Ok(name)

InitFilename ==
    /\ filename \in FilenameInputs
    /\ fnResult = NoResult

ConstructFilename ==
    /\ fnResult = NoResult
    /\ fnResult' = WindowsCompatibleFilename_new(filename)
    /\ UNCHANGED filename
    /\ UNCHANGED << pathVars, streamVars, engVars, mmapVars, tempVars,
                    outcomeVars, httpVars >>

\* ------------------------------------------------------------------------
\* MagicResult: new, with_encoding, clone and ==
\* ------------------------------------------------------------------------

\* field values that are enumerated
RequestIds == {"req-1", "req-2"}
MimeTypes == {"text/plain", "image/png"}
Encodings == {"None", "Some(utf-8)", "Some(binary)"}

\* Uuid::new_v4: a value that no earlier call returned
Uuid_new_v4(drawn) == drawn + 1

\* MagicResult::new; analyzed_at takes no part in any comparison and is left out
MagicResult_new(request_id, name, mime_type, description, drawn) ==
    [id |-> Uuid_new_v4(drawn), built |-> drawn + 1, request_id |-> request_id,
     filename |-> name, mime_type |-> mime_type, description |-> description,
     encoding |-> "None"]

MagicResult_with_encoding(res, encoding) == [res EXCEPT !.encoding = encoding]

\* #[derive(Clone)]
MagicResult_clone(res) == res

\* an equality that compares what the outcome says instead of its id
MagicResult_eq_by_content(a, b) ==
    /\ a.request_id = b.request_id
    /\ a.filename = b.filename
    /\ a.mime_type = b.mime_type
    /\ a.description = b.description

\* impl PartialEq for MagicResult
MagicResult_eq(a, b) == a.id = b.id

InitOutcomes ==
    /\ outcomes = [k \in OutcomeSlots |-> NoOutcome]
    /\ uuidsDrawn = 0

OutcomeNew(k) ==
    /\ outcomes[k] = NoOutcome
    /\ \E request_id \in RequestIds, mime_type \in MimeTypes :
        outcomes' = [outcomes EXCEPT ![k] =
            MagicResult_new(request_id, << "a" >>, mime_type, "text", uuidsDrawn)]
    /\ uuidsDrawn' = uuidsDrawn + 1
    /\ UNCHANGED << pathVars, streamVars, engVars, mmapVars, tempVars,
                    nameVars, httpVars >>

OutcomeClone(k, to) ==
    /\ outcomes[k] # NoOutcome
    /\ outcomes[to] = NoOutcome
    /\ outcomes' = [outcomes EXCEPT ![to] = MagicResult_clone(outcomes[k])]
    /\ UNCHANGED uuidsDrawn
    /\ UNCHANGED << pathVars, streamVars, engVars, mmapVars, tempVars,
                    nameVars, httpVars >>

OutcomeWithEncoding(k) ==
    /\ outcomes[k] # NoOutcome
    /\ \E encoding \in Encodings :
        outcomes' = [outcomes EXCEPT ![k] = MagicResult_with_encoding(outcomes[k], encoding)]
    /\ UNCHANGED uuidsDrawn
    /\ UNCHANGED << pathVars, streamVars, engVars, mmapVars, tempVars,
                    nameVars, httpVars >>

\* ------------------------------------------------------------------------
\* The HTTP layer: router, require_auth, the handlers and the layers of main
\* ------------------------------------------------------------------------

\* most body chunks of one request that are enumerated
MaxBodyChunks == 2

MagicRoutes == {"/v1/magic/content", "/v1/magic/path"}

\* config.auth.username and config.auth.password
ExpectedUsername == << "u" >>
ExpectedPassword == << "p" >>

\* config.sandbox.base_dir
HttpBaseDir == << "/", "r" >>

\* decoded credentials that are enumerated
CredentialPayloads ==
    { << "u" >>, << ":", "p" >>, << "u", ":" >>,
      << "u", ":", "p" >>, << "u", ":", "u" >>, << "p", ":", "p" >> }

\* Authorization headers that are enumerated: absent, another scheme, a
\* value that is not base64 of UTF-8, and Basic with each payload
AuthorizationInputs ==
    { NoHeader,
      [scheme |-> "Bearer ", decodable |-> TRUE, payload |-> << "u", ":", "p" >>],
      [scheme |-> "Basic ", decodable |-> FALSE, payload |-> << >>] }
    \cup { [scheme |-> "Basic ", decodable |-> TRUE, payload |-> pl] :
             pl \in CredentialPayloads }

GoodHeader == [scheme |-> "Basic ", decodable |-> TRUE, payload |-> << "u", ":", "p" >>]

HttpFilenames == { << "a" >>, << >>, << "a", "/" >> }

HttpPaths == { << "a" >>, << "/", "a" >>, << ".", ".", "/", "a" >> }

\* bodies that are enumerated, as the lengths of their chunks
HttpBodies == { << 0 >> } \cup SeqsUpTo({MiB}, MaxBodyChunks)

\* what File::open finds at the resolved path
HttpTargets == {"file", "missing", "unreadable"}

HttpInput(route, header, name, path, body, target) ==
    [route |-> route, authorization |-> header, filename |-> name,
     path |-> path, body |-> body, target |-> target]

\* requests that are enumerated: one input is varied at a time beyond the
\* point where the request would be rejected
HttpInputs ==
    { HttpInput("/v1/ping", h, << >>, << >>, << >>, "none") : h \in {NoHeader, GoodHeader} }
    \cup { HttpInput("/v1/magic/content", h, << "a" >>, << >>, << MiB >>, "none") :
             h \in AuthorizationInputs }
    \cup { HttpInput("/v1/magic/path", h, << "a" >>, << "a" >>, << >>, "file") :
             h \in {NoHeader, GoodHeader,
                    [GoodHeader EXCEPT !.payload = << "u", ":", "u" >>]} }
    \cup { HttpInput("/v1/magic/content", GoodHeader, name, << >>, << MiB >>, "none") :
             name \in HttpFilenames }
    \cup { HttpInput("/v1/magic/content", GoodHeader, << "a" >>, << >>, body, "none") :
             body \in HttpBodies }
    \cup { HttpInput("/v1/magic/path", GoodHeader, name, << "a" >>, << >>, "file") :
             name \in HttpFilenames }
    \cup { HttpInput("/v1/magic/path", GoodHeader, << "a" >>, path, << >>, "file") :
             path \in HttpPaths }
    \cup { HttpInput("/v1/magic/path", GoodHeader, << "a" >>, << "a" >>, << >>, target) :
             target \in HttpTargets }

\* str::splitn(2, ':'): one part when there is no colon, else the text before
\* the first colon and everything after it
Splitn2(str) ==
    IF \A i \in 1..Len(str) : str[i] # ":" THEN << str >>
    ELSE LET k == CHOOSE i \in 1..Len(str) : str[i] = ":" /\ \A j \in 1..(i - 1) : str[j] # ":"
         IN  << SubSeq(str, 1, k - 1), SubSeq(str, k + 1, Len(str)) >>

BasicAuthCredentials_new(username, password) ==
    IF Len(username) = 0 \/ Len(password) = 0 THEN Err("EmptyValue")
    ELSE IF SeqAny(username, ":") THEN Err("InvalidCharacter")
    ELSE Ok([username |-> username, password |-> password])

\* BasicAuthService::verify_credentials
verify_credentials(credentials) ==
    credentials.username = ExpectedUsername /\ credentials.password = ExpectedPassword

\* require_auth that lets every well-formed pair of credentials through
require_auth_without_verify(header) ==
    IF header = NoHeader THEN "Unauthorized"
    ELSE IF header.scheme # "Basic " THEN "Unauthorized"
    ELSE IF ~header.decodable THEN "Unauthorized"
    ELSE LET parts == Splitn2(header.payload)
         IN  IF Len(parts) # 2 THEN "Unauthorized"
             ELSE IF ~BasicAuthCredentials_new(parts[1], parts[2]).ok THEN "Unauthorized"
             ELSE "next"

\* require_auth: "next" when the request is handed to the handler
require_auth(header) ==
    IF header = NoHeader THEN "Unauthorized"
    ELSE IF header.scheme # "Basic " THEN "Unauthorized"
    ELSE IF ~header.decodable THEN "Unauthorized"
    ELSE LET parts == Splitn2(header.payload)
         IN  IF Len(parts) # 2 THEN "Unauthorized"
             ELSE LET credentials == BasicAuthCredentials_new(parts[1], parts[2])
                  IN  IF ~credentials.ok THEN "Unauthorized"
                      ELSE IF ~verify_credentials(credentials.value) THEN "Unauthorized"
                      ELSE "next"

\* ApplicationError::status_code, and 200 for Ok
StatusCode(result) ==
    CASE result = "Ok" -> 200
      [] result = "BadRequest" -> 400
      [] result = "Unauthorized" -> 401
      [] result = "Forbidden" -> 403
      [] result = "NotFound" -> 404
      [] result = "Timeout" -> 504
      [] OTHER -> 500

\* requests that hold a permit of the ConcurrencyLimitLayer
InFlight == { r \in Requests : http[r].pc \in {"admitted", "authorized", "reading", "awaiting"} }

\* the response is returned: the handler's locals are dropped, the
\* TempFileHandler among them, and an unfinished blocking job is detached
Respond(req, status) ==
    [req EXCEPT !.pc = "responded", !.status = status, !.spillLive = FALSE,
                !.job = JoinHandle_drop(req.job)]

InitHttp ==
    /\ http = [r \in Requests |-> NoRequest]
    /\ hGuard = 0
    /\ max_connections \in 1..NRequests
    /\ large_file_threshold_mb \in 0..MaxThresholdMb
    /\ mmap_fallback_enabled \in BOOLEAN
    /\ min_free_space_mb = 0
    /\ buffer = <<>>
    /\ is_large = FALSE
    /\ temp_file = <<>>
    /\ free_space = -1
    /\ spillDir = EmptyDir
    /\ streamPc = "idle"
    /\ streamResult = "none"
    /\ consumed = <<>>
    /\ createCalls = 0
    /\ createdAtChunk = 0
    /\ spillPath = "none"
    /\ sJob = NoJob
    /\ sEngineCalls = 0
    /\ ioLog = <<>>
    /\ spaceLog = <<>>
    /\ errorItem = 0

\* a request reaches the server; requests are numbered in the order of
\* their arrival
HttpArrive(r) ==
    /\ http[r].pc = "idle"
    /\ \A q \in 1..(r - 1) : http[q].pc # "idle"
    /\ \E input \in HttpInputs :
        http' = [http EXCEPT ![r] = [NoRequest EXCEPT !.pc = "arrived", !.input = input]]
    /\ UNCHANGED << hGuard, max_connections >>
    /\ UNCHANGED << pathVars, streamVars, engVars, mmapVars, tempVars,
                    nameVars, outcomeVars >>

\* ConcurrencyLimitLayer: the request gets a permit
HttpAdmit(r) ==
    /\ http[r].pc = "arrived"
    /\ Cardinality(InFlight) < max_connections
    /\ http' = [http EXCEPT ![r].pc = "admitted"]
    /\ UNCHANGED << hGuard, max_connections >>
    /\ UNCHANGED << pathVars, streamVars, engVars, mmapVars, tempVars,
                    nameVars, outcomeVars >>

\* GET /v1/ping: HealthCheckUseCase::execute is Ok(())
HttpPing(r) ==
    /\ http[r].pc = "admitted"
    /\ http[r].input.route = "/v1/ping"
    /\ http' = [http EXCEPT ![r] = Respond(http[r], 200)]
    /\ UNCHANGED << hGuard, max_connections >>
    /\ UNCHANGED << pathVars, streamVars, engVars, mmapVars, tempVars,
                    nameVars, outcomeVars >>

\* the route layer of /v1/magic: require_auth
HttpRequireAuth(r) ==
    /\ http[r].pc = "admitted"
    /\ http[r].input.route \in MagicRoutes
    /\ http' = [http EXCEPT ![r] =
                  IF require_auth(http[r].input.authorization) = "next"
                  THEN [http[r] EXCEPT !.pc = "authorized"]
                  ELSE Respond(http[r], 401)]
    /\ UNCHANGED << hGuard, max_connections >>
    /\ UNCHANGED << pathVars, streamVars, engVars, mmapVars, tempVars,
                    nameVars, outcomeVars >>

\* analyze_content up to its loop: the filename is validated
HttpAnalyzeContent(r) ==
    /\ http[r].pc = "authorized"
    /\ http[r].input.route = "/v1/magic/content"
    /\ http' = [http EXCEPT ![r] =
                  IF WindowsCompatibleFilename_new(http[r].input.filename).ok
                  THEN [http[r] EXCEPT !.pc = "reading"]
                  ELSE Respond(http[r], 400)]
    /\ UNCHANGED << hGuard, max_connections >>
    /\ UNCHANGED << pathVars, streamVars, engVars, mmapVars, tempVars,
                    nameVars, outcomeVars >>

\* analyze_content, one turn of the loop: the next chunk or a body error;
\* the first chunk across the threshold creates and fills the spill file
HttpBodyChunk(r) ==
    LET req == http[r]
        n == req.input.body[req.consumed + 1]
        chunk == [id |-> req.consumed + 1, len |-> n]
    IN
    /\ req.pc = "reading"
    /\ req.consumed < Len(req.input.body)
    /\ \E io \in {"ok", "bodyError", "createFailed", "openFailed", "writeFailed"} :
        http' = [http EXCEPT ![r] =
            IF io = "bodyError" THEN Respond(req, 400)
            ELSE LET got == [req EXCEPT !.consumed = @ + 1] IN
                 IF ~req.is_large
                 THEN IF ExceedsThreshold(BufLen(req.buffer), n, Threshold)
                      THEN IF io = "createFailed" THEN Respond(got, 500)
                           ELSE LET made == [got EXCEPT !.is_large = TRUE,
                                                        !.spills = @ + 1,
                                                        !.spillLive = TRUE]
                                IN  IF io = "ok"
                                    THEN [made EXCEPT !.buffer = << >>]
                                    ELSE Respond(made, 500)
                      ELSE [got EXCEPT !.buffer = Extend(req.buffer, chunk)]
                 ELSE IF io = "writeFailed" THEN Respond(got, 500) ELSE got]
    /\ UNCHANGED << hGuard, max_connections >>
    /\ UNCHANGED << pathVars, streamVars, engVars, mmapVars, tempVars,
                    nameVars, outcomeVars >>

\* analyze_content after the loop, up to the await inside execute or
\* execute_from_file
HttpBodyEnd(r) ==
    LET req == http[r] IN
    /\ req.pc = "reading"
    /\ req.consumed = Len(req.input.body)
    /\ \E synced \in BOOLEAN :
        http' = [http EXCEPT ![r] =
            IF req.is_large
            THEN IF synced
                 THEN [req EXCEPT !.pc = "awaiting",
                                  !.job = [NoJob EXCEPT !.state = "queued", !.kind = "file"]]
                 ELSE Respond(req, 500)
            ELSE IF DataIsEmpty(req.buffer)
                 THEN Respond(req, StatusCode("BadRequest"))
                 ELSE [req EXCEPT !.pc = "awaiting",
                                  !.job = [NoJob EXCEPT !.state = "queued", !.kind = "buffer"]]]
    /\ UNCHANGED << hGuard, max_connections >>
    /\ UNCHANGED << pathVars, streamVars, engVars, mmapVars, tempVars,
                    nameVars, outcomeVars >>

\* analyze_path: both validations, then AnalyzePathUseCase::execute up to its
\* await
HttpAnalyzePath(r) ==
    LET req == http[r] IN
    /\ req.pc = "authorized"
    /\ req.input.route = "/v1/magic/path"
    /\ \E mapped \in BOOLEAN :
        http' = [http EXCEPT ![r] =
            IF ~WindowsCompatibleFilename_new(req.input.filename).ok THEN Respond(req, 400)
            ELSE LET path == RelativePath_new(req.input.path) IN
                 IF ~path.ok THEN Respond(req, 400)
                 ELSE IF ~resolve_path(HttpBaseDir, path.value).ok
                 THEN Respond(req, StatusCode("BadRequest"))
                 ELSE IF req.input.target = "missing"
                 THEN Respond(req, StatusCode(OpenErrorToApplicationError("NotFound")))
                 ELSE IF req.input.target = "unreadable"
                 THEN Respond(req, StatusCode(OpenErrorToApplicationError("PermissionDenied")))
                 ELSE LET open == [req EXCEPT !.opened = @ + 1] IN
                      IF ~mapped THEN Respond(open, StatusCode("InternalError"))
                      ELSE [open EXCEPT !.mapped = @ + 1, !.pc = "awaiting",
                                        !.job = [NoJob EXCEPT !.state = "queued",
                                                              !.kind = "buffer"]]]
    /\ UNCHANGED << hGuard, max_connections >>
    /\ UNCHANGED << pathVars, streamVars, engVars, mmapVars, tempVars,
                    nameVars, outcomeVars >>

\* the blocking pool starts the job: analyze_file opens and maps the spill
\* file, then the job reaches MagicCookie::buffer or MagicCookie::file
HttpJobStart(r) ==
    LET req == http[r] IN
    /\ req.job.state = "queued"
    /\ \E opened \in BOOLEAN, mapped \in BOOLEAN :
        http' = [http EXCEPT ![r] =
            IF req.job.kind = "buffer"
            THEN [req EXCEPT !.job.state = "wantLock", !.job.call = "magic_buffer"]
            ELSE IF ~opened
            THEN [req EXCEPT !.job.state = "done", !.job.result = "FileNotFound"]
            ELSE IF mapped
            THEN [req EXCEPT !.opened = @ + 1, !.mapped = @ + 1,
                             !.job.state = "wantLock", !.job.call = "magic_buffer"]
            ELSE IF mmap_fallback_enabled
            THEN [req EXCEPT !.opened = @ + 1,
                             !.job.state = "wantLock", !.job.call = "magic_file"]
            ELSE [req EXCEPT !.opened = @ + 1,
                             !.job.state = "done", !.job.result = "AnalysisFailed"]]
    /\ UNCHANGED << hGuard, max_connections >>
    /\ UNCHANGED << pathVars, streamVars, engVars, mmapVars, tempVars,
                    nameVars, outcomeVars >>

\* MagicCookie::buffer / file: the guard is taken and the native call starts
HttpJobLock(r) ==
    /\ http[r].job.state = "wantLock"
    /\ MutexAvailable(hGuard)
    /\ hGuard' = r
    /\ http' = [http EXCEPT ![r].job.state = "native", ![r].engineCalls = @ + 1]
    /\ UNCHANGED max_connections
    /\ UNCHANGED << pathVars, streamVars, engVars, mmapVars, tempVars,
                    nameVars, outcomeVars >>

\* the native call returns and the guard is dropped
HttpJobNativeReturn(r) ==
    /\ http[r].job.state = "native"
    /\ \E native \in {"mime", "null", "badMime"} :
        http' = [http EXCEPT ![r].job =
                    FinishedJob(http[r].job,
                                IF native = "mime" THEN "Ok" ELSE "AnalysisFailed")]
    /\ hGuard' = IF hGuard = r THEN 0 ELSE hGuard
    /\ UNCHANGED max_connections
    /\ UNCHANGED << pathVars, streamVars, engVars, mmapVars, tempVars,
                    nameVars, outcomeVars >>

\* the awaiting handler is woken by its finished job
HttpResume(r) ==
    /\ http[r].pc = "awaiting"
    /\ TimeoutPoll(http[r].job, FALSE) = "Ready"
    /\ http' = [http EXCEPT ![r] =
                  Respond(http[r], StatusCode(JobToApplicationResult(http[r].job.result)))]
    /\ UNCHANGED << hGuard, max_connections >>
    /\ UNCHANGED << pathVars, streamVars, engVars, mmapVars, tempVars,
                    nameVars, outcomeVars >>

\* analysis_timeout_secs elapses while the handler awaits
HttpDeadline(r) ==
    /\ http[r].pc = "awaiting"
    /\ TimeoutPoll(http[r].job, TRUE) # "Pending"
    /\ http' = [http EXCEPT ![r] =
                  Respond(http[r], StatusCode(DeadlineResult(http[r].job)))]
    /\ UNCHANGED << hGuard, max_connections >>
    /\ UNCHANGED << pathVars, streamVars, engVars, mmapVars, tempVars,
                    nameVars, outcomeVars >>

\* TimeoutLayer: read_timeout_secs elapses while the handler waits for the
\* next chunk or for the engine
HttpReadTimeout(r) ==
    /\ \/ http[r].pc = "awaiting"
       \/ http[r].pc = "reading" /\ http[r].consumed < Len(http[r].input.body)
    /\ http' = [http EXCEPT ![r] = Respond(http[r], 408)]
    /\ UNCHANGED << hGuard, max_connections >>
    /\ UNCHANGED << pathVars, streamVars, engVars, mmapVars, tempVars,
                    nameVars, outcomeVars >>

\* ------------------------------------------------------------------------
\* The specifications
\* ------------------------------------------------------------------------
vars == << pathVars, streamVars, engVars, mmapVars, tempVars,
          nameVars, outcomeVars, httpVars >>

NextPath == ConstructPath \/ ResolvePath \/ OpenResolved \/ MapAndClassify

InitPathRequest ==
    /\ InitPath
    /\ StreamLocalsIdle
    /\ mmap_fallback_enabled \in BOOLEAN
    /\ EngineIdle
    /\ MmapIdle
    /\ TempIdle
    /\ EdgeIdle

SpecPath == InitPathRequest /\ [][NextPath]_vars

NextStream ==
    \/ BufferChunk \/ CrossThreshold \/ AppendToSpill \/ StreamError \/ StreamEnd
    \/ JobBegin \/ JobFinish \/ AwaitReturns \/ DeadlineElapses \/ Sweep

InitStreamRequest ==
    InitStream /\ PathIdle /\ EngineIdle /\ MmapIdle /\ TempIdle /\ EdgeIdle

SpecStream == InitStreamRequest /\ [][NextStream]_vars

\* the input stream yields its next item, an error or its end, and the
\* runtime's timer fires; the blocking job and the sweeper are under no
\* obligation to make progress
StreamFairness ==
    /\ WF_vars(BufferChunk \/ CrossThreshold \/ AppendToSpill \/ StreamError \/ StreamEnd)
    /\ WF_vars(DeadlineElapses)

SpecStreamLive == InitStreamRequest /\ [][NextStream]_vars /\ StreamFairness

NextEngine ==
    \/ EngineOpen \/ EngineLoaded
    \/ \E c \in Callers :
         \/ Dispatch(c) \/ JobStart(c) \/ JobLock(c) \/ JobNativeReturn(c)
         \/ JobGetError(c) \/ CallerResumes(c) \/ CallerDeadline(c)

SpecEngine == InitEngine /\ [][NextEngine]_vars

\* the runtime's timer fires for every caller suspended in timeout(..); the
\* blocking pool, the engine guard and the native call are under no
\* obligation to make progress
EngineFairness == \A c \in Callers : WF_vars(CallerDeadline(c))

SpecEngineLive == InitEngine /\ [][NextEngine]_vars /\ EngineFairness

NextMmap ==
    \E h \in Mappers :
        \/ MmapNew(h) \/ MmapInstall(h) \/ MmapAsSlice(h) \/ MmapReadStart(h)
        \/ MmapFault(h) \/ MmapReadEnd(h) \/ MmapDrop(h)

InitMmapOwners ==
    InitMmap /\ PathIdle /\ StreamIdle /\ EngineIdle /\ TempIdle /\ EdgeIdle

SpecMmap == InitMmapOwners /\ [][NextMmap]_vars

NextTemp ==
    \/ \E c \in Creators :
         \/ TempBegin(c) \/ TempAttempt(c) \/ TempFinish(c)
         \/ TempCleanupCheck(c) \/ TempCleanupRemove(c) \/ TempDrop(c)
    \/ TempSweep

InitTempOwners ==
    InitTemp /\ PathIdle /\ StreamIdle /\ EngineIdle /\ MmapIdle /\ EdgeIdle

SpecTemp == InitTempOwners /\ [][NextTemp]_vars

NextFilename == ConstructFilename

InitFilenameCall ==
    /\ InitFilename
    /\ PathIdle /\ StreamIdle /\ EngineIdle /\ MmapIdle /\ TempIdle
    /\ OutcomesIdle /\ HttpIdle

SpecFilename == InitFilenameCall /\ [][NextFilename]_vars

NextOutcomes ==
    \E k \in OutcomeSlots :
        \/ OutcomeNew(k)
        \/ OutcomeWithEncoding(k)
        \/ \E to \in OutcomeSlots : OutcomeClone(k, to)

InitOutcomeValues ==
    /\ InitOutcomes
    /\ PathIdle /\ StreamIdle /\ EngineIdle /\ MmapIdle /\ TempIdle
    /\ FilenameIdle /\ HttpIdle

SpecOutcomes == InitOutcomeValues /\ [][NextOutcomes]_vars

\* the two ingestion loops side by side: one execute_stream call and one
\* analyze_content request under the same configuration, the request's body
\* being a stream execute_stream may be given
IngestBodies == SeqsUpTo({1, MiB}, MaxBodyChunks)

InitIngest ==
    /\ InitStream
    /\ mmap_fallback_enabled
    /\ \E body \in IngestBodies :
         http = [r \in Requests |->
                   IF r = 1
                   THEN [NoRequest EXCEPT
                           !.pc = "reading",
                           !.input = HttpInput("/v1/magic/content", GoodHeader,
                                               << "a" >>, << >>, body, "none")]
                   ELSE NoRequest]
    /\ hGuard = 0
    /\ max_connections = 1
    /\ PathIdle /\ EngineIdle /\ MmapIdle /\ TempIdle /\ FilenameIdle /\ OutcomesIdle

NextIngest ==
    \/ BufferChunk \/ CrossThreshold \/ AppendToSpill \/ StreamError \/ StreamEnd
    \/ HttpBodyChunk(1) \/ HttpBodyEnd(1)

SpecIngest == InitIngest /\ [][NextIngest]_vars

NextHttp ==
    \E r \in Requests :
        \/ HttpArrive(r) \/ HttpAdmit(r) \/ HttpPing(r) \/ HttpRequireAuth(r)
        \/ HttpAnalyzeContent(r) \/ HttpBodyChunk(r) \/ HttpBodyEnd(r)
        \/ HttpAnalyzePath(r)
        \/ HttpJobStart(r) \/ HttpJobLock(r) \/ HttpJobNativeReturn(r)
        \/ HttpResume(r) \/ HttpDeadline(r) \/ HttpReadTimeout(r)

InitHttpServer ==
    /\ InitHttp
    /\ PathIdle /\ EngineIdle /\ MmapIdle /\ TempIdle
    /\ FilenameIdle /\ OutcomesIdle

SpecHttp == InitHttpServer /\ [][NextHttp]_vars

\* the runtime runs the middleware and handler code of every request, the
\* client delivers the body, and the timer of the analysis deadline fires;
\* the blocking pool, the engine guard and the native call are under no
\* obligation to make progress
HttpFairness ==
    WF_vars(\E r \in Requests :
                \/ HttpAdmit(r) \/ HttpPing(r) \/ HttpRequireAuth(r)
                \/ HttpAnalyzeContent(r) \/ HttpBodyChunk(r) \/ HttpBodyEnd(r)
                \/ HttpAnalyzePath(r) \/ HttpDeadline(r))

\* the server under one configuration: the threshold is one MiB and the
\* buffered fallback is enabled
InitHttpConfigured ==
    /\ InitHttpServer
    /\ large_file_threshold_mb = 1
    /\ mmap_fallback_enabled

SpecHttpLive == InitHttpConfigured /\ [][NextHttp]_vars /\ HttpFairness

\* ------------------------------------------------------------------------
\* Claims about RelativePath::new and PathSandbox::resolve_path
\* ------------------------------------------------------------------------

\* a segment is a maximal run of characters without "/"
IsSegment(s, i, j) ==
    /\ i = 1 \/ s[i - 1] = "/"
    /\ j = Len(s) \/ s[j + 1] = "/"
    /\ \A k \in i..j : s[k] # "/"

HasSegment(s, seg) ==
    \E i \in 1..Len(s) : \E j \in i..Len(s) : IsSegment(s, i, j) /\ SubSeq(s, i, j) = seg

LeadingSlash(s) == Len(s) > 0 /\ s[1] = "/"
LeadingSpace(s) == Len(s) > 0 /\ s[1] = " "
DoubledSeparator(s) == \E i \in 1..(Len(s) - 1) : s[i] = "/" /\ s[i + 1] = "/"

WellFormedRelative(s) ==
    /\ ~LeadingSlash(s)
    /\ ~LeadingSpace(s)
    /\ ~DoubledSeparator(s)
    /\ ~HasSegment(s, <<".">>)
    /\ ~HasSegment(s, <<".", ".">>)

\* C6: for every root and every path accepted by RelativePath::new,
\* resolve_path succeeds, returns the root joined with the path, the root is
\* a component-wise prefix of the result and no ".." follows it, and at the
\* moment it has returned nothing was opened and no failure was recorded.
C6_ResolveSucceedsInsideRoot ==
    /\ pathPc # "resolveFailed"
    /\ pathPc \in {"resolved", "opened", "openFailed"} =>
        /\ relPath.ok /\ resolvedPath.ok
        /\ \E sep \in { <<>>, <<"/">> } :
              resolvedPath.value = base_dir \o sep \o relPath.value
        /\ IsPrefix(Components(base_dir), Components(resolvedPath.value))
        /\ ~SeqAny(Components(resolvedPath.value), <<".", ".">>)
    /\ pathPc = "resolved" => openedAt = <<>> /\ pathOutcome = "none"

C6_Witness ==
    /\ pathPc = "resolved"
    /\ base_dir = <<"/", "r">>
    /\ rawPath = <<"a", "/", "a">>
    /\ resolvedPath = Ok(<<"/", "r", "/", "a", "/", "a">>)

\* C7: the file AnalyzePathUseCase::execute opens lies inside the sandbox
\* root, also when a path component inside the sandbox is a symbolic link
\* that points outside the root.
C7_OpenedFileInsideRoot ==
    pathPc = "opened" => IsPrefix(AbsComps(Components(base_dir)), openedAt)

\* C8: RelativePath::new accepts a string exactly when it has no leading
\* "/", no leading space, no "//" and no segment equal to "." or "..", and
\* an accepted value stores the input unchanged.
C8_AcceptsExactlyWellFormed ==
    pathPc # "start" =>
        /\ relPath.ok <=> WellFormedRelative(rawPath)
        /\ relPath.ok => relPath.value = rawPath

C8_Witness ==
    /\ pathPc = "constructed"
    /\ rawPath = <<"a", ".", ".">>
    /\ relPath = Ok(rawPath)

\* the failure kind of the first rule broken, in the order leading "/",
\* leading space, doubled separator, ".." segment, "." segment
FirstBrokenRule(s) ==
    CASE LeadingSlash(s) -> "AbsolutePath"
      [] ~LeadingSlash(s) /\ LeadingSpace(s) -> "InvalidPath"
      [] ~LeadingSlash(s) /\ ~LeadingSpace(s) /\ DoubledSeparator(s) -> "InvalidPath"
      [] ~LeadingSlash(s) /\ ~LeadingSpace(s) /\ ~DoubledSeparator(s)
            /\ HasSegment(s, <<".", ".">>) -> "PathTraversal"
      [] OTHER -> "InvalidPath"

\* C9: a rejected path fails with AbsolutePath, PathTraversal or InvalidPath,
\* the kind being that of the first rule broken, and a rejected path is
\* never handed to the resolver nor opened.
C9_SpecificFailureKind ==
    (pathPc # "start" /\ ~relPath.ok) =>
        /\ pathPc = "rejected"
        /\ relPath.err \in {"AbsolutePath", "PathTraversal", "InvalidPath"}
        /\ relPath.err = FirstBrokenRule(rawPath)
        /\ resolvedPath = NoResult
        /\ openedAt = <<>>

C9_Witness ==
    /\ pathPc = "rejected"
    /\ rawPath = <<".", "/", ".", ".">>
    /\ relPath = Err("PathTraversal")

\* ------------------------------------------------------------------------
\* Claims about the engine adapter
\* ------------------------------------------------------------------------

\* whoever is executing magic_load, magic_buffer or magic_file
InNativeCall ==
    { c \in Callers : jobs[c].state \in {"native", "getError"} }
        \cup (IF enginePc = "loading" THEN { Constructor } ELSE {})

\* C1: at every moment at most one thread is inside a native engine call on
\* the shared handle, and it is the holder of the guard; every other job that
\* reached MagicCookie::buffer / file is waiting for the guard.
C1_NativeCallsSerialized ==
    /\ Cardinality(InNativeCall) <= 1
    /\ \A c \in InNativeCall : mutexHolder = c
    /\ mutexHolder # 0 => InNativeCall = { mutexHolder }

C1_Witness ==
    \E c \in Callers, d \in Callers :
        /\ c # d
        /\ jobs[c].state = "native" /\ mutexHolder = c
        /\ jobs[d].state = "wantLock"

\* C5: a caller whose engine call was unfinished when the deadline elapsed
\* has returned, with Timeout and nothing else, and Timeout is returned in
\* no other case.
C5_DeadlineYieldsTimeout ==
    \A c \in Callers :
        /\ elapsedPending[c] => callerPc[c] = "returned" /\ callerResult[c] = "Timeout"
        /\ callerResult[c] = "Timeout" => elapsedPending[c] /\ callerPc[c] = "returned"

C5_Witness ==
    \E c \in Callers :
        /\ elapsedPending[c]
        /\ callerKind[c] = "path_execute"
        /\ callerPc[c] = "returned"
        /\ jobs[c].state = "native"

\* ------------------------------------------------------------------------
\* Claims about execute_stream
\* ------------------------------------------------------------------------

\* index of the first chunk that makes the cumulative size exceed the
\* threshold, 0 if there is none
FirstCross(lens, threshold) ==
    IF \E k \in 1..Len(lens) : SumSeq(SubSeq(lens, 1, k)) > threshold
    THEN CHOOSE k \in 1..Len(lens) :
            /\ SumSeq(SubSeq(lens, 1, k)) > threshold
            /\ \A j \in 1..(k - 1) : SumSeq(SubSeq(lens, 1, j)) <= threshold
    ELSE 0

\* C2: once execute_stream has returned, whatever the exit path, the spill
\* file it obtained no longer exists in the spill directory.
C2_SpillFileRemovedOnReturn ==
    (streamPc = "returned" /\ spillPath # "none") => spillPath \notin DOMAIN spillDir

C2_Witness ==
    /\ streamPc = "returned"
    /\ spillPath # "none"
    /\ streamResult = "Timeout"
    /\ sJob.state = "queued"
    /\ Len(consumed) = 3

\* C3: when the crossing chunk finds the free space below
\* min_free_space_mb, the request has failed, create_temp_file was not
\* called, the spill directory holds no file and the engine was not invoked.
C3_NoSpillWhenSpaceInsufficient ==
    (free_space # -1 /\ free_space < min_free_space_mb) =>
        /\ streamPc = "returned"
        /\ streamResult = "InternalError"
        /\ FirstCross(consumed, Threshold) = Len(consumed)
        /\ createCalls = 0
        /\ spillPath = "none"
        /\ DOMAIN spillDir = {}
        /\ sJob.state = "none"
        /\ sEngineCalls = 0

C3_Witness ==
    /\ free_space = 0
    /\ min_free_space_mb = 1
    /\ large_file_threshold_mb = 1
    /\ consumed = << MiB, 1 >>
    /\ streamResult = "InternalError"

\* C4: while execute_stream runs the buffer holds at most threshold bytes,
\* and once the request has switched to the spill file the buffer is empty.
C4_BufferBoundedByThreshold ==
    /\ BufLen(buffer) <= Threshold
    /\ (is_large /\ streamPc \in {"reading", "awaiting"}) => buffer = <<>>

C4_Witness ==
    /\ large_file_threshold_mb = 1
    /\ consumed = << MiB, MiB + 1, 1 >>
    /\ streamPc = "reading"
    /\ is_large
    /\ buffer = <<>>

SufficientSpace == free_space = -1 \/ free_space >= min_free_space_mb

\* C10: with sufficient free space create_temp_file is called once if the
\* cumulative size of the chunks exceeded the threshold and never otherwise,
\* at the first chunk that makes the sum strictly greater than the
\* threshold; it is never called twice, and is_large holds from then on.
C10_OneSpillFileAtFirstCrossing ==
    /\ createCalls <= 1
    /\ is_large <=> createCalls = 1
    /\ SufficientSpace =>
        /\ createCalls = IF SumSeq(consumed) > Threshold THEN 1 ELSE 0
        /\ createdAtChunk = FirstCross(consumed, Threshold)

C10_Witness ==
    /\ large_file_threshold_mb = 1
    /\ consumed = << MiB - 1, 1, 1 >>
    /\ createCalls = 1
    /\ createdAtChunk = 3
    /\ temp_file # <<>>

\* the chunks of the stream that hold bytes, in arrival order
RECURSIVE ChunksOf(_, _)
ChunksOf(lens, i) ==
    IF i > Len(lens) THEN <<>>
    ELSE (IF lens[i] = 0 THEN <<>> ELSE << [id |-> i, len |-> lens[i]] >>)
         \o ChunksOf(lens, i + 1)

\* C11: whenever execute_stream has had the engine invoked, the bytes handed
\* to the engine are the concatenation of every chunk of the stream in
\* arrival order, whether they went through the buffer or the spill file and
\* whatever the threshold is.
C11_EngineSeesWholeStream ==
    sJob.call # "none" => sJob.input = ChunksOf(consumed, 1)

\* a stream of three chunks whose first stays in the buffer, whose second
\* crosses a one-megabyte threshold and whose third is appended to the spill
\* file reaches the engine
C11_Witness ==
    /\ sJob.state = "native"
    /\ sJob.kind = "file"
    /\ large_file_threshold_mb = 1
    /\ consumed = << MiB, 1, MiB - 1 >>
    /\ Len(sJob.input) = 3

\* C12: a request that carries no bytes (an empty stream, or only
\* zero-length chunks) is answered BadRequest whatever the threshold is: no
\* spill file is created and the engine is never invoked.
C12_EmptyContentRejected ==
    SumSeq(consumed) = 0 =>
        /\ streamPc \in {"idle", "reading", "returned"}
        /\ streamPc = "returned" => streamResult = "BadRequest"
        /\ createCalls = 0
        /\ DOMAIN spillDir = {}
        /\ sJob = NoJob
        /\ sEngineCalls = 0

\* a stream of two zero-length chunks under a threshold of zero has ended
C12_Witness ==
    /\ streamPc = "returned"
    /\ streamResult = "BadRequest"
    /\ large_file_threshold_mb = 0
    /\ consumed = << 0, 0 >>
    /\ buffer = <<>>

C14_PermissionDeniedIsForbidden ==
    (pathPc = "openFailed" /\ pathOpenErr = "PermissionDenied")
        => pathOutcome = "Forbidden"

\* C15: MmapHandler::new on a zero-length file returns a mapping without
\* calling mmap, its slice has length 0 and its drop never calls munmap; for
\* a non-empty file a successful mmap is released by exactly one munmap when
\* the handler is dropped, and a failed mmap is never unmapped.
C15_MappingLifecycle ==
    \A h \in Mappers :
        /\ mFileLen[h] = 0 =>
              /\ mmapCalls[h] = 0 /\ munmapCalls[h] = 0
              /\ mErr[h] # "mmap"
              /\ mPc[h] = "live" => mHandler[h][1].len = 0
              /\ mSlice[h] \in {-1, 0}
        /\ mFileLen[h] > 0 =>
              /\ mPc[h] = "start" => mmapCalls[h] = 0 /\ munmapCalls[h] = 0
              /\ mPc[h] = "live" =>
                    /\ mmapCalls[h] = 1 /\ munmapCalls[h] = 0
                    /\ mHandler[h][1].addr \in DOMAIN mappings
                    /\ mappings[mHandler[h][1].addr] = mFileLen[h]
              /\ mPc[h] = "dropped" => mmapCalls[h] = 1 /\ munmapCalls[h] = 1
              /\ mPc[h] = "failed" => munmapCalls[h] = 0
              /\ mSlice[h] \in {-1, mFileLen[h]}
        /\ (\A g \in Mappers : mPc[g] \in {"failed", "dropped"}) => DOMAIN mappings = {}

\* one owner mapped an empty file, read its slice and dropped the handler,
\* the other mapped a two-byte file, read it and dropped the handler
C15_Witness ==
    /\ mFileLen[1] = 0 /\ mFileLen[2] = 2
    /\ mPc[1] = "dropped" /\ mPc[2] = "dropped"
    /\ mSlice[1] = 0 /\ mSlice[2] = 2
    /\ mmapCalls[1] = 0 /\ mmapCalls[2] = 1
    /\ munmapCalls[1] = 0 /\ munmapCalls[2] = 1

\* C16: every explicit cleanup call on a TempFileHandler returns Ok, and the
\* handler's cleanup calls and its drop together remove the file at most
\* once.
C16_CleanupAlwaysOk ==
    \A c \in Creators :
        /\ \A i \in 1..Len(tCleanupLog[c]) : tCleanupLog[c][i] = "Ok"
        /\ tRemovals[c] <= 1

\* C17: create_temp_file opens at most MAX_RETRIES candidates; it tries
\* another candidate only after an open that failed with AlreadyExists; it
\* fails with MaxRetriesExceeded exactly when MAX_RETRIES opens in a row
\* failed that way; any other open error ends the call at once with that
\* error.
C17_BoundedCollisionRetry ==
    \A c \in Creators :
        LET log == tOpenLog[c] IN
        /\ Len(log) <= MAX_RETRIES
        /\ \A i \in 1..(Len(log) - 1) : log[i] = "AlreadyExists"
        /\ tRetries[c] = Cardinality({i \in 1..Len(log) : log[i] = "AlreadyExists"})
        /\ tResult[c] = "MaxRetriesExceeded" <=>
              (Len(log) = MAX_RETRIES /\ log[MAX_RETRIES] = "AlreadyExists")
        /\ (Len(log) > 0 /\ log[Len(log)] = "Io") =>
              (tPc[c] = "failed" /\ tResult[c] = "Io" /\ tPath[c] = 0)
        /\ (tPc[c] = "attempt" /\ Len(log) > 0) => log[Len(log)] = "AlreadyExists"

\* a call has failed with MaxRetriesExceeded after ten collisions
C17_Witness ==
    \E c \in Creators :
        /\ tResult[c] = "MaxRetriesExceeded"
        /\ tPc[c] = "failed"
        /\ Len(tOpenLog[c]) = 10
        /\ tRetries[c] = 10

\* C18: create_temp_file leaves every file that already existed as it was,
\* the file a call created is not one that existed before, and no two live
\* handlers name the same path.
C18_CreationNeverSharesAFile ==
    /\ \A n \in ForeignNames \cap DOMAIN tDir : tDir[n] = ForeignFile
    /\ \A c \in Creators :
          tPath[c] # 0 =>
              /\ tPath[c] \notin ForeignNames
              /\ tPath[c] \in DOMAIN tDir => tDir[tPath[c]].by = c
    /\ \A c, d \in Creators :
          (c # d /\ tHandler[c] # <<>> /\ tHandler[d] # <<>>)
              => tHandler[c][1].path # tHandler[d][1].path
    /\ \A c, d \in Creators :
          (c # d /\ tPath[c] # 0) => tPath[c] # tPath[d]

\* two callers hold handlers at once, one of them after a candidate that
\* collided with an existing file, and the file another party left is intact
C18_Witness ==
    /\ tHandler[1] # <<>> /\ tHandler[2] # <<>>
    /\ tRetries[1] > 0
    /\ tHandler[1][1].path \in DOMAIN tDir
    /\ tHandler[2][1].path \in DOMAIN tDir
    /\ 1 \in DOMAIN tDir

\* C19: whenever create_temp_file returned Ok, the file it created had mode
\* 0600 and held exactly the supplied data at that moment, and the file stays
\* so while it exists.
C19_OwnerOnlyModeAndExactData ==
    \A c \in Creators :
        tResult[c] = "Ok" =>
            /\ tAtReturn[c].mode = 384
            /\ tAtReturn[c].content = tData[c]
            /\ tAtReturn[c].by = c
            /\ tPath[c] \in DOMAIN tDir => tDir[tPath[c]] = tAtReturn[c]

\* a call given one byte has returned Ok and its file is in the directory
C19_Witness ==
    \E c \in Creators :
        /\ tResult[c] = "Ok"
        /\ tPc[c] = "held"
        /\ tData[c] = << 1 >>
        /\ tPath[c] \in DOMAIN tDir
        /\ tDir[tPath[c]].mode = 384

\* C20: once create_temp_file has returned an error after its open created a
\* file, that file is no longer in the directory.
C20_NoFileLeftAfterFailedCreate ==
    \A c \in Creators :
        (tPc[c] = "failed" /\ tPath[c] # 0) => tPath[c] \notin DOMAIN tDir

\* C21: when AnalyzePathUseCase::execute cannot map the opened file and
\* mmap_fallback_enabled is set, the request does not fail on the mapping:
\* the file is classified through a buffered read instead.
C21_PathMapFailureFallsBack ==
    ~(mmap_fallback_enabled /\ pathPc = "mapFailed" /\ pathOutcome = "InternalError")

C26_DatabaseLoadedOnceAtConstruction ==
    /\ enginePc = "ready" => loadLog = << 0 >>
    /\ enginePc = "failed" => loadLog \in { << >>, << -1 >> }
    /\ enginePc \in {"unopened", "loading"} => loadLog = << >>
    /\ enginePc # "ready" =>
          \A c \in Callers : callerPc[c] = "idle" /\ jobs[c] = NoJob
    /\ \A c \in Callers :
          /\ jobs[c].call \in {"none", "magic_buffer", "magic_file"}
          /\ jobs[c].result \in {"none", "Ok", "FileNotFound", "AnalysisFailed"}
          /\ callerResult[c] # "DatabaseLoadFailed"

C26_Witness ==
    /\ enginePc = "ready"
    /\ loadLog = << 0 >>
    /\ \E c \in Callers, d \in Callers :
          /\ c # d
          /\ jobs[c].state = "done" /\ jobs[c].call = "magic_buffer"
          /\ jobs[d].state = "done" /\ jobs[d].call = "magic_file"

\* C30: the blocking job of a caller that received Timeout is not cancelled:
\* it is still on the blocking pool and can start, take the engine guard and
\* finish its native call; while it runs it holds the guard, so the job of
\* another caller waits behind it.
C30_TimedOutJobKeepsRunning ==
    \A c \in Callers :
        elapsedPending[c] =>
            /\ jobs[c].state \in {"queued", "wantLock", "native", "getError", "done"}
            /\ jobs[c].state = "queued" => ENABLED JobStart(c)
            /\ jobs[c].state = "wantLock" /\ mutexHolder = 0 => ENABLED JobLock(c)
            /\ jobs[c].state = "native" =>
                  /\ mutexHolder = c
                  /\ ENABLED JobNativeReturn(c)
                  /\ \A d \in Callers \ {c} : ~ ENABLED JobLock(d)
            /\ jobs[c].state = "getError" =>
                  /\ mutexHolder = c
                  /\ ENABLED JobGetError(c)
                  /\ \A d \in Callers \ {c} : ~ ENABLED JobLock(d)

\* the guard is held by the job of a caller that already returned Timeout,
\* and a second caller has timed out with its own engine call never started
C30_Witness ==
    \E c \in Callers, d \in Callers :
        /\ c # d
        /\ callerPc[c] = "returned" /\ callerResult[c] = "Timeout"
        /\ jobs[c].state = "native" /\ mutexHolder = c
        /\ callerPc[d] = "returned" /\ callerResult[d] = "Timeout"
        /\ jobs[d].state = "wantLock"

C24_StreamCallReturns ==
    (streamPc \in {"reading", "awaiting"}) ~> (streamPc = "returned")

HasReservedChar(str) == \E i \in 1..Len(str) : str[i] \in ReservedChars

\* C27: WindowsCompatibleFilename::new accepts a string exactly when it is
\* non-empty, at most 310 characters long and free of the reserved
\* characters; otherwise it fails with EmptyValue, ExceedsMaxLength or
\* InvalidCharacter, emptiness and length being looked at first.
C27_AcceptsUpTo310Characters ==
    fnResult # NoResult =>
        /\ fnResult.ok <=>
              (Len(filename) > 0 /\ Len(filename) <= 310 /\ ~HasReservedChar(filename))
        /\ ~fnResult.ok =>
              fnResult.err = IF Len(filename) = 0 THEN "EmptyValue"
                             ELSE IF Len(filename) > 310 THEN "ExceedsMaxLength"
                             ELSE "InvalidCharacter"

\* ------------------------------------------------------------------------
\* Claims about MagicResult
\* ------------------------------------------------------------------------

LiveOutcomes == { k \in OutcomeSlots : outcomes[k] # NoOutcome }

SameContent(a, b) ==
    /\ a.request_id = b.request_id
    /\ a.filename = b.filename
    /\ a.mime_type = b.mime_type
    /\ a.description = b.description

\* C28: two MagicResults that compare equal carry the same correlation id;
\* equality is identity: values that descend from separate MagicResult::new
\* calls compare unequal even when every field they were built from agrees,
\* and a value equals each of its clones whatever encoding either carries.
C28_EqualityIsIdentity ==
    \A i \in LiveOutcomes, j \in LiveOutcomes :
        /\ MagicResult_eq(outcomes[i], outcomes[j]) =>
              outcomes[i].request_id = outcomes[j].request_id
        /\ outcomes[i].built # outcomes[j].built =>
              ~MagicResult_eq(outcomes[i], outcomes[j])
        /\ outcomes[i].built = outcomes[j].built =>
              MagicResult_eq(outcomes[i], outcomes[j])

\* two separately built outcomes agree in every field and are unequal, and a
\* clone that was given another encoding equals its original
C28_Witness ==
    \E i \in LiveOutcomes, j \in LiveOutcomes, k \in LiveOutcomes :
        /\ outcomes[i].built # outcomes[j].built
        /\ SameContent(outcomes[i], outcomes[j])
        /\ outcomes[i].encoding = outcomes[j].encoding
        /\ ~MagicResult_eq(outcomes[i], outcomes[j])
        /\ k # i
        /\ outcomes[k].built = outcomes[i].built
        /\ outcomes[k].encoding # outcomes[i].encoding
        /\ MagicResult_eq(outcomes[k], outcomes[i])

\* ------------------------------------------------------------------------
\* Claims about the HTTP layer
\* ------------------------------------------------------------------------

Arrived == { r \in Requests : http[r].pc # "idle" }

\* nothing was consumed, opened, mapped, created or handed to the engine
UsedNothing(req) ==
    /\ req.consumed = 0
    /\ req.buffer = << >>
    /\ req.opened = 0
    /\ req.mapped = 0
    /\ req.spills = 0
    /\ ~req.spillLive
    /\ req.engineCalls = 0
    /\ req.job = NoJob

\* the one Authorization header that carries the configured credentials
AcceptedHeader(header) ==
    /\ header.scheme = "Basic "
    /\ header.decodable
    /\ header.payload = ExpectedUsername \o << ":" >> \o ExpectedPassword

InvalidName(str) == Len(str) = 0 \/ HasReservedChar(str)

InvalidQuery(input) ==
    \/ InvalidName(input.filename)
    \/ input.route = "/v1/magic/path" /\ ~WellFormedRelative(input.path)

\* C22: an authenticated request whose filename or relative path is invalid
\* is answered 400 by the handler, and at no moment of its life has a body
\* chunk been buffered, a file been opened or mapped, a spill file been
\* created or an engine job been dispatched for it.
C22_ValidationBeforeResources ==
    \A r \in Arrived :
        LET req == http[r] IN
        (req.input.route \in MagicRoutes
            /\ AcceptedHeader(req.input.authorization)
            /\ InvalidQuery(req.input)) =>
                /\ UsedNothing(req)
                /\ req.pc \in {"arrived", "admitted", "authorized", "responded"}
                /\ req.pc = "responded" => req.status = 400

\* both handlers have rejected a request, one for its filename and one for
\* its path, while the body and the file were there to be read
C22_Witness ==
    \E r \in Requests, q \in Requests :
        /\ http[r].pc = "responded" /\ http[r].status = 400
        /\ http[r].input.route = "/v1/magic/content"
        /\ http[r].input.filename = << "a", "/" >>
        /\ Len(http[r].input.body) > 0
        /\ UsedNothing(http[r])
        /\ http[q].pc = "responded" /\ http[q].status = 400
        /\ http[q].input.route = "/v1/magic/path"
        /\ http[q].input.path = << ".", ".", "/", "a" >>
        /\ http[q].input.target = "file"
        /\ UsedNothing(http[q])

\* C29: a request to /v1/magic/content or /v1/magic/path that does not carry
\* the configured credentials is answered 401 by require_auth and never
\* reaches a handler: nothing is consumed, opened, created or handed to the
\* engine for it; /v1/ping is answered 200 with or without credentials.
C29_UnauthorizedNeverReachesOrchestrator ==
    \A r \in Arrived :
        LET req == http[r] IN
        /\ (req.input.route \in MagicRoutes /\ ~AcceptedHeader(req.input.authorization)) =>
              /\ UsedNothing(req)
              /\ req.pc \in {"arrived", "admitted", "responded"}
              /\ req.pc = "responded" => req.status = 401
        /\ (req.input.route = "/v1/ping" /\ req.pc = "responded") =>
              req.status = 200 /\ UsedNothing(req)

\* a request with a wrong password was answered 401 and a ping without an
\* Authorization header was answered 200
C29_Witness ==
    \E r \in Requests, q \in Requests :
        /\ http[r].pc = "responded" /\ http[r].status = 401
        /\ http[r].input.route = "/v1/magic/content"
        /\ http[r].input.authorization.payload = << "u", ":", "u" >>
        /\ http[q].pc = "responded" /\ http[q].status = 200
        /\ http[q].input.route = "/v1/ping"
        /\ http[q].input.authorization = NoHeader

\* total number of body bytes of a request
BodyLen(input) == SumSeq(input.body)

\* the requests the engine is not needed for
NeedsNoEngine(input) ==
    \/ input.route = "/v1/ping"
    \/ input.route \in MagicRoutes /\ InvalidQuery(input)
    \/ input.route = "/v1/magic/content" /\ BodyLen(input) = 0
    \/ input.route = "/v1/magic/path" /\ input.target = "missing"

\* C25: a ping and a request rejected for its filename, its path, its empty
\* content or its missing file never dispatch an engine job and never wait
\* for one, and each of them is answered although nothing obliges a job that
\* holds the engine guard to release it.
C25_EngineFreeRequestsComplete ==
    /\ [](\A r \in Arrived :
            NeedsNoEngine(http[r].input) =>
                /\ http[r].job = NoJob
                /\ http[r].engineCalls = 0
                /\ http[r].pc # "awaiting")
    /\ \A r \in Requests :
          (http[r].pc = "arrived" /\ NeedsNoEngine(http[r].input))
              ~> (http[r].pc = "responded")

\* a request with empty content was answered while the job of the other
\* request was inside the native call, holding the guard
C25_Witness ==
    \E r \in Requests, q \in Requests :
        /\ http[r].pc = "responded"
        /\ http[r].input.route = "/v1/magic/content"
        /\ AcceptedHeader(http[r].input.authorization)
        /\ http[r].input.body = << 0 >>
        /\ http[r].status = 400
        /\ http[q].job.state = "native"
        /\ hGuard = q
        /\ http[q].pc = "responded" /\ http[q].status = 504

\* ------------------------------------------------------------------------
\* Claims about the spill path of execute_stream
\* ------------------------------------------------------------------------

\* the request has handed its spill file to execute_from_file
SpillJob == sJob.kind = "file"

\* a write_all or the sync_all on the spill file has failed
IoFailure == \E i \in 1..Len(ioLog) : ioLog[i].result = "Err"

WritesLogged == Cardinality({ i \in 1..Len(ioLog) : ioLog[i].op = "write" })

\* C31: on the spill path the classification of the spill file starts only
\* after the stream has ended, the buffer and every chunk from the crossing
\* one on have been written and the sync has succeeded; from then on nothing
\* is written to the file; and once a write or the sync has failed there is
\* no job and no engine call, and the request has failed with InternalError.
C31_ClassifyAfterDrainAndSync ==
    /\ [](SpillJob =>
            /\ streamPc # "reading"
            /\ ~IoFailure
            /\ ioLog[Len(ioLog)].op = "sync"
            /\ WritesLogged = Len(consumed) - createdAtChunk + 2)
    /\ [](IoFailure =>
            /\ sJob = NoJob
            /\ sEngineCalls = 0
            /\ streamPc = "returned"
            /\ streamResult = "InternalError")
    /\ [][SpillJob =>
            /\ ioLog' = ioLog
            /\ consumed' = consumed
            /\ spillPath \in DOMAIN spillDir' =>
                 spillDir'[spillPath] = spillDir[spillPath]]_vars

\* the engine runs on a spill file that took the buffer, the crossing chunk
\* and one later chunk and was then synced
C31_Witness ==
    /\ SpillJob
    /\ sJob.call # "none"
    /\ consumed = << MiB, 1, MiB - 1 >>
    /\ large_file_threshold_mb = 1
    /\ Len(ioLog) = 4
    /\ ~IoFailure

\* ------------------------------------------------------------------------
\* Claims about storage-access faults on mappings
\* ------------------------------------------------------------------------

\* owner h holds a mapping of a non-empty file
HoldsMapping(h) == mPc[h] \in {"live", "reading"} /\ mHandler[h][1].len > 0

\* C32: once MmapHandler::new has returned a non-empty mapping the process
\* handles SIGBUS with handle_sigbus, and every SIGBUS raised by a read of a
\* mapping leaves the flag SIGBUS_OCCURRED set and the process running.
C32_FaultSetsFlagAndProcessSurvives ==
    /\ [](\A h \in Mappers : HoldsMapping(h) => sigbusAction = "handle_sigbus")
    /\ [][\A h \in Mappers :
            mFaults'[h] > mFaults[h] => SIGBUS_OCCURRED' /\ processAlive']_vars

\* a read of the second owner's mapping has raised SIGBUS twice while the
\* first owner is between its mmap and its sigaction call
C32_Witness ==
    /\ mFaults[2] = MaxFaults
    /\ mPc[2] = "reading"
    /\ mPc[1] = "mapped"
    /\ SIGBUS_OCCURRED
    /\ processAlive

\* C33: a classification starts to read its mapping with the flag cleared,
\* and an engine result obtained from a mapping whose read raised SIGBUS is
\* never a success.
C33_FlagClearedBeforeAndCheckedAfter ==
    \A h \in Mappers :
        /\ (mPc[h] = "reading" /\ mFaults[h] = 0) => ~check_sigbus_flag(SIGBUS_OCCURRED)
        /\ mFaults[h] > 0 => mResult[h] # "Ok"

\* C34: while an owner holds a mapping whose reads raised no SIGBUS, the
\* mapping stays in place with its length whatever the other owners do, and
\* check_sigbus_flag reports no fault to that owner.
C34_DistinctMappingsIndependent ==
    \A h \in Mappers :
        (HoldsMapping(h) /\ mFaults[h] = 0) =>
            /\ mHandler[h][1].addr \in DOMAIN mappings
            /\ mappings[mHandler[h][1].addr] = mHandler[h][1].len
            /\ \A g \in Mappers \ {h} :
                 mHandler[g] # <<>> => mHandler[g][1].addr # mHandler[h][1].addr
            /\ ~check_sigbus_flag(SIGBUS_OCCURRED)

\* ------------------------------------------------------------------------
\* Claims about cleanup racing with the background cleanup task
\* ------------------------------------------------------------------------

\* C35: whenever an explicit cleanup call on a handler has returned, it
\* returned Ok and the handler is marked cleaned up, also when the
\* background cleanup task removed the file before the call or between its
\* existence check and its remove_file.
C35_CleanupToleratesConcurrentRemoval ==
    \A c \in Creators :
        (tPc[c] = "held" /\ tCleanupLog[c] # <<>>) =>
            /\ tCleanupLog[c][Len(tCleanupLog[c])] = "Ok"
            /\ tHandler[c][1].cleaned_up

\* ------------------------------------------------------------------------
\* Claims about the fallback of analyze_file
\* ------------------------------------------------------------------------

\* C36: in analyze_file magic_file is the engine call exactly when
\* MmapHandler::new failed and mmap_fallback_enabled is set; after a
\* successful mapping the one magic_buffer call over the slice is the only
\* engine call and its outcome is the job's outcome; after a failed mapping
\* with the fallback disabled the job has failed with AnalysisFailed and the
\* engine was not called.
C36_FileCallOnlyAsEnabledFallback ==
    sJob.kind = "file" =>
        /\ sJob.call = "magic_file" <=> (sJob.map = "failed" /\ mmap_fallback_enabled)
        /\ sJob.map = "ok" =>
              /\ sJob.call = "magic_buffer"
              /\ sEngineCalls = 1
              /\ sJob.state = "done" => sJob.result \in {"Ok", "AnalysisFailed"}
        /\ (sJob.map = "failed" /\ ~mmap_fallback_enabled) =>
              /\ sJob.state = "done"
              /\ sJob.result = "AnalysisFailed"
              /\ sJob.call = "none"
              /\ sEngineCalls = 0

\* the mapping of the spill file failed, the fallback is enabled, and
\* magic_file has returned an engine error
C36_Witness ==
    /\ sJob.kind = "file"
    /\ sJob.map = "failed"
    /\ mmap_fallback_enabled
    /\ sJob.call = "magic_file"
    /\ sJob.state = "done"
    /\ sJob.result = "AnalysisFailed"
    /\ sEngineCalls = 1

\* ------------------------------------------------------------------------
\* Claims about the engine guard on the error path
\* ------------------------------------------------------------------------

\* jobs blocked in self.inner.lock()
GuardWaiters == { c \in Callers : jobs[c].state = "wantLock" }

\* C37: a job asks for the engine guard only while it does not hold it;
\* get_error runs under the guard of its caller without asking for it; a job
\* that has returned, with a result or an engine error, no longer holds the
\* guard; and whenever jobs wait for the guard while nobody is inside the
\* engine, each of them can take it.
C37_GuardNeverRelockedNorLeaked ==
    /\ \A c \in Callers :
        /\ jobs[c].state = "wantLock" => mutexHolder # c
        /\ jobs[c].state = "getError" => mutexHolder = c /\ ENABLED JobGetError(c)
        /\ jobs[c].state \in {"none", "queued", "done"} => mutexHolder # c
    /\ (GuardWaiters # {} /\ InNativeCall = {}) =>
          \A c \in GuardWaiters : ENABLED JobLock(c)

\* the engine call of one caller has failed and its caller was answered,
\* and the job of the other caller holds the guard
C37_Witness ==
    \E c \in Callers, d \in Callers :
        /\ c # d
        /\ jobs[c].state = "done" /\ jobs[c].result = "AnalysisFailed"
        /\ jobs[c].call = "magic_buffer"
        /\ callerResult[c] = "UnprocessableEntity"
        /\ jobs[d].state = "native" /\ mutexHolder = d

\* ------------------------------------------------------------------------
\* Claims about error items and the free-space query of execute_stream
\* ------------------------------------------------------------------------

\* C38: once the stream has yielded an error item execute_stream has
\* returned BadRequest: the chunks consumed are those before the error item,
\* no job was dispatched and the engine was not called, and the spill file
\* the request had created is gone.
C38_ErrorItemEndsRequest ==
    errorItem # 0 =>
        /\ streamPc = "returned"
        /\ streamResult = "BadRequest"
        /\ Len(consumed) = errorItem - 1
        /\ sJob = NoJob
        /\ sEngineCalls = 0
        /\ temp_file = <<>>
        /\ spillPath # "none" => spillPath \notin DOMAIN spillDir

\* the third item of the stream is an error, after the second chunk had
\* crossed the threshold and a spill file had been created and written
C38_Witness ==
    /\ errorItem = 3
    /\ consumed = << MiB, 1 >>
    /\ large_file_threshold_mb = 1
    /\ createCalls = 1
    /\ spillPath # "none"
    /\ Len(ioLog) = 2
    /\ streamResult = "BadRequest"

\* the statvfs query of this request failed
QueryFailed == spaceLog # <<>> /\ spaceLog[1].rc # 0

\* C40: execute_stream queries the free space at most once, exactly when a
\* chunk first crosses the threshold; a failed query counts as 0 megabytes
\* free, so with a positive min_free_space_mb the request has failed at the
\* crossing chunk with InternalError and without a spill file.
C40_FailedSpaceQueryCountsAsZero ==
    /\ Len(spaceLog) <= 1
    /\ (spaceLog # <<>>) <=> (FirstCross(consumed, Threshold) # 0)
    /\ QueryFailed => free_space = 0
    /\ (QueryFailed /\ min_free_space_mb > 0) =>
          /\ streamPc = "returned"
          /\ streamResult = "InternalError"
          /\ FirstCross(consumed, Threshold) = Len(consumed)
          /\ createCalls = 0
          /\ spillPath = "none"
          /\ DOMAIN spillDir = {}
          /\ sEngineCalls = 0

\* the second chunk crosses a one-megabyte threshold, statvfs fails and one
\* megabyte of free space is required
C40_Witness ==
    /\ QueryFailed
    /\ min_free_space_mb = 1
    /\ large_file_threshold_mb = 1
    /\ consumed = << MiB, 1 >>
    /\ streamResult = "InternalError"
    /\ createCalls = 0

\* ------------------------------------------------------------------------
\* Claims about the two ingestion loops
\* ------------------------------------------------------------------------

\* analyze_content and execute_stream have taken the same chunks
SameChunks ==
    /\ http[1].consumed = Len(consumed)
    /\ consumed = SubSeq(http[1].input.body, 1, http[1].consumed)

\* C39: after the same chunks under the same configuration the loop of
\* analyze_content and execute_stream hold the same buffer and have made the
\* same buffer-or-spill decision, and analyze_content has created a spill
\* file only where execute_stream, after its free-space check, called
\* create_temp_file.
C39_HandlerLoopMatchesExecuteStream ==
    SameChunks =>
        /\ (http[1].pc = "reading" /\ streamPc = "reading") =>
              /\ http[1].is_large = is_large
              /\ http[1].buffer = buffer
        /\ http[1].spills > 0 => createCalls > 0

====
